---- MODULE Spec2Model ----
(***************************************************************************)
(* Model of src/main.py: loot_table_json_to_java and the translators      *)
(* nested in build_pool.                                                   *)
(*                                                                         *)
(* JSON values are tagged records; JSON objects keep their members in      *)
(* document order.  Emitted text is a sequence of tokens: every            *)
(* parenthesis, digit, sign, quote, tab and newline is a token of its own, *)
(* the separator ", " is one token of two characters, and the fixed names  *)
(* of the target API are atoms.  A translator returns a Python outcome:    *)
(* a string, None, or a raised exception.                                  *)
(***************************************************************************)
EXTENDS Integers, Sequences, FiniteSets

VARIABLES
    pc,         \* position of the run of loot_table_json_to_java
    table,      \* the decoded loot_table.json
    event,      \* the event parameter
    pool_i,     \* index of the pool being built (for modify_pool in table['pools'])
    item_i,     \* index inside the current conditions / functions loop
    out,        \* what has been printed: one entry per print call
    exc,        \* the exception that ended the run, or "none"
    call,       \* a direct call of one translator: [fn, arg]
    ret         \* the outcome of that call, or Pending

vars == <<pc, table, event, pool_i, item_i, out, exc, call, ret>>

----------------------------------------------------------------------------
(* JSON values, as json.loads decodes them *)

JInt(n) == [k |-> "int", v |-> n]
JFloat(w, d) == [k |-> "float", w |-> w, d |-> d]
JBool(b) == [k |-> "bool", b |-> b]
JStr(s) == [k |-> "str", s |-> s]
JList(l) == [k |-> "list", l |-> l]
JObj(members) == [k |-> "obj", o |-> members]
JNull == [k |-> "null"]
Kv(key, val) == [key |-> key, val |-> val]

\* isinstance(x, Number): int, float and bool are numbers.Number
IsNumber(x) == x.k \in {"int", "float", "bool"}

\* isinstance(x, int): bool is a subclass of int
IsInt(x) == x.k \in {"int", "bool"}

\* isinstance(x, str)
IsStr(x) == x.k = "str"

\* key in x, for a decoded JSON object x
\* a key is seen only when it is the first of the object
HasKeyWhenFirst(x, key) ==
    /\ x.k = "obj"
    /\ Len(x.o) > 0
    /\ x.o[1].key = key

HasKey(x, key) ==
    /\ x.k = "obj"
    /\ \E i \in 1..Len(x.o) : x.o[i].key = key

\* x[key] for a decoded JSON object holding the key (dict.get(key) otherwise:
\* None); json.loads keeps the last of duplicated members
GetKey(x, key) ==
    IF ~HasKey(x, key) THEN JNull
    ELSE LET i == CHOOSE i \in 1..Len(x.o) :
                      /\ x.o[i].key = key
                      /\ \A j \in (i+1)..Len(x.o) : x.o[j].key # key
         IN  x.o[i].val

----------------------------------------------------------------------------
(* Python outcomes *)

Str(t) == [tag |-> "str", t |-> t]
None == [tag |-> "None"]
Raise(e) == [tag |-> "raise", exc |-> e]

IsText(r) == r.tag = "str"
IsRaise(r) == r.tag = "raise"

\* a + b for a string a: a raised operand propagates, left first; a None or
\* otherwise non-string right operand is a TypeError
Add(a, b) ==
    IF a.tag = "raise" THEN a
    ELSE IF b.tag = "raise" THEN b
    ELSE IF b.tag # "str" THEN Raise("TypeError")
    ELSE Str(a.t \o b.t)

\* a + b + c + ..., evaluated left to right
RECURSIVE CatFrom(_, _, _)
CatFrom(acc, parts, i) ==
    IF i > Len(parts) THEN acc ELSE CatFrom(Add(acc, parts[i]), parts, i + 1)

Cat(parts) == CatFrom(Str(<<>>), parts, 1)

----------------------------------------------------------------------------
(* str() *)

Digit(d) ==
    CASE d = 0 -> "0" [] d = 1 -> "1" [] d = 2 -> "2" [] d = 3 -> "3"
      [] d = 4 -> "4" [] d = 5 -> "5" [] d = 6 -> "6" [] d = 7 -> "7"
      [] d = 8 -> "8" [] d = 9 -> "9"

RECURSIVE NatStr(_)
NatStr(n) == IF n < 10 THEN <<Digit(n)>> ELSE NatStr(n \div 10) \o <<Digit(n % 10)>>

IntStr(n) == IF n < 0 THEN <<"-">> \o NatStr(-n) ELSE NatStr(n)

\* str(x) of a decoded scalar
ScalarStr(x) ==
    CASE x.k = "int" -> IntStr(x.v)
      [] x.k = "float" -> IntStr(x.w) \o <<".">> \o <<Digit(x.d)>>
      [] x.k = "bool" -> IF x.b THEN <<"True">> ELSE <<"False">>
      [] x.k = "str" -> x.s
      [] x.k = "null" -> <<"None">>
      [] OTHER -> <<"<repr>">>

\* repr(x) of a list element: a string is quoted
Repr(x) == IF x.k = "str" THEN <<"'">> \o x.s \o <<"'">> ELSE ScalarStr(x)

RECURSIVE ReprItems(_, _)
ReprItems(l, i) ==
    IF i > Len(l) THEN <<>>
    ELSE Repr(l[i]) \o (IF i < Len(l) THEN <<", ">> ELSE <<>>) \o ReprItems(l, i + 1)

\* str(x): of a list, the repr of its elements in brackets
PyStr(x) == IF x.k = "list" THEN <<"[">> \o ReprItems(x.l, 1) \o <<"]">> ELSE ScalarStr(x)

\* a variant of bool(x) that takes every value for true
TruthyAlways(x) == TRUE

\* bool(x)
Truthy(x) ==
    CASE x.k = "bool" -> x.b
      [] x.k = "int" -> x.v # 0
      [] x.k = "float" -> x.w # 0 \/ x.d # 0
      [] x.k = "str" -> Len(x.s) > 0
      [] x.k = "list" -> Len(x.l) > 0
      [] x.k = "obj" -> Len(x.o) > 0
      [] x.k = "null" -> FALSE

\* '#' in s
HasHash(t) == \E i \in 1..Len(t) : t[i] = "#"

\* s.replace('#', '')
StripHash(t) == SelectSeq(t, LAMBDA c : c # "#")

\* str.upper() of an entity target name
Upper(tok) ==
    CASE tok = "this" -> "THIS"
      [] tok = "killer" -> "KILLER"
      [] tok = "attacker" -> "ATTACKER"
      [] tok = "direct_killer" -> "DIRECT_KILLER"
      [] tok = "killer_player" -> "KILLER_PLAYER"
      [] OTHER -> tok

UpperStr(s) == [i \in 1..Len(s) |-> Upper(s[i])]

\* the number of characters of a token
Width(tok) == Len(tok)

\* tok[:-1] of the names a trimmed list can end in
DropLastChar(tok) ==
    CASE tok = "Arrays.asList" -> "Arrays.asLis"
      [] tok = "RegistryEntryList.of" -> "RegistryEntryList.o"
      [] tok = ".items" -> ".item"
      [] tok = "AnyOfLootCondition.builder" -> "AnyOfLootCondition.builde"
      [] tok = "AllOfLootCondition.builder" -> "AllOfLootCondition.builde"
      [] OTHER -> "<cut>"

\* result[:-1]
Chop1(t) ==
    IF Len(t) = 0 THEN t
    ELSE IF Width(t[Len(t)]) = 1 THEN SubSeq(t, 1, Len(t) - 1)
    ELSE SubSeq(t, 1, Len(t) - 1) \o <<DropLastChar(t[Len(t)])>>

\* result[:-2]
Chop2(t) ==
    IF Len(t) = 0 THEN t
    ELSE IF Width(t[Len(t)]) = 2 THEN SubSeq(t, 1, Len(t) - 1)
    ELSE IF Width(t[Len(t)]) = 1 THEN Chop1(SubSeq(t, 1, Len(t) - 1))
    ELSE SubSeq(t, 1, Len(t) - 1) \o <<DropLastChar(DropLastChar(t[Len(t)]))>>

\* "..." + str(x[key]) : KeyError when the key is absent
StrOf(x, key) == IF HasKey(x, key) THEN Str(PyStr(GetKey(x, key))) ELSE Raise("KeyError")

\* "..." + x[key] : KeyError when the key is absent, TypeError when the
\* value is not a string
RawOf(x, key) ==
    IF ~HasKey(x, key) THEN Raise("KeyError")
    ELSE IF IsStr(GetKey(x, key)) THEN Str(GetKey(x, key).s)
    ELSE Raise("TypeError")

\* x[key] == literal, for a present key
KeyIs(x, key, lit) == GetKey(x, key) = JStr(<<lit>>)

----------------------------------------------------------------------------
(* Provider and range translators *)

Lit(t) == Str(t)

\* for value in x[key]: the elements, when x[key] is a list
ListOf(x, key) == IF GetKey(x, key).k = "list" THEN GetKey(x, key).l ELSE <<>>

\* the outcome of iterating x[key]
IterOf(x, key) ==
    IF ~HasKey(x, key) THEN Raise("KeyError")
    ELSE IF GetKey(x, key).k = "list" THEN Str(<<>>)
    ELSE Raise("TypeError")

\* result += str(value) + "F, " for every value
RECURSIVE LookupValues(_, _)
LookupValues(l, i) ==
    IF i > Len(l) THEN <<>>
    ELSE PyStr(l[i]) \o <<"F", ", ">> \o LookupValues(l, i + 1)

RECURSIVE enchantment_level_value(_)
enchantment_level_value(amount_object) ==
    IF IsNumber(amount_object) THEN
        Str(<<"new EnchantmentLevelBasedValue.Constant", "(">>
            \o PyStr(amount_object) \o <<"F", ")">>)
    ELSE IF HasKey(amount_object, "type") THEN
        LET Sub(key) == IF HasKey(amount_object, key)
                        THEN enchantment_level_value(GetKey(amount_object, key))
                        ELSE Raise("KeyError")
        IN
        CASE KeyIs(amount_object, "type", "minecraft:constant") ->
               Cat(<<Lit(<<"new EnchantmentLevelBasedValue.Constant", "(">>),
                     RawOf(amount_object, "value"),
                     Lit(<<"F", ")">>)>>)
          [] KeyIs(amount_object, "type", "minecraft:clamped") ->
               Cat(<<Lit(<<"new EnchantmentLevelBasedValue.Clamped", "(">>),
                     Sub("value"),
                     Lit(<<", ">>),
                     StrOf(amount_object, "min"),
                     Lit(<<"F", ", ">>),
                     StrOf(amount_object, "max"),
                     Lit(<<"F", ")">>)>>)
          [] KeyIs(amount_object, "type", "minecraft:fraction") ->
               Cat(<<Lit(<<"new EnchantmentLevelBasedValue.Fraction", "(">>),
                     Sub("numerator"),
                     Lit(<<", ">>),
                     Sub("denominator"),
                     Lit(<<")">>)>>)
          [] KeyIs(amount_object, "type", "minecraft:levels_squared") ->
               Cat(<<Lit(<<"new EnchantmentLevelBasedValue.LevelsSquared", "(">>),
                     StrOf(amount_object, "added"),
                     Lit(<<"F", ")">>)>>)
          [] KeyIs(amount_object, "type", "minecraft:linear") ->
               Cat(<<Lit(<<"new EnchantmentLevelBasedValue.Linear", "(">>),
                     StrOf(amount_object, "base"),
                     Lit(<<"F", ", ">>),
                     StrOf(amount_object, "per_level_above_first"),
                     Lit(<<"F", ")">>)>>)
          [] KeyIs(amount_object, "type", "minecraft:lookup") ->
               IF IsRaise(IterOf(amount_object, "values")) THEN IterOf(amount_object, "values")
               ELSE Cat(<<Lit(Chop2(<<"new EnchantmentLevelBasedValue.Lookup", "(",
                                      "Arrays.asList", "(">>
                                    \o LookupValues(ListOf(amount_object, "values"), 1))),
                          Lit(<<")", ", ">>),
                          Sub("fallback"),
                          Lit(<<")">>)>>)
          [] OTHER -> None
    ELSE None

\* a variant of the bare-number arm that keeps only the whole part, str(int(n))
loot_number_literal_truncated(number_object) ==
    Str(<<"ConstantLootNumberProvider.create", "(">>
        \o (IF number_object.k = "float" THEN IntStr(number_object.w) ELSE PyStr(number_object))
        \o <<"F", ")">>)

\* the arm of loot_number for a bare number
loot_number_literal(number_object) ==
    Str(<<"ConstantLootNumberProvider.create", "(">> \o PyStr(number_object) \o <<"F", ")">>)

\* "new UniformLootNumberProvider(" + min + ", " + max + ")", min and max
\* being the outcomes of loot_number on the two operands
uniform_of(min, max) ==
    Cat(<<Lit(<<"new UniformLootNumberProvider", "(">>), min, Lit(<<", ">>), max, Lit(<<")">>)>>)

\* a variant of the sugar arm that passes the operands in the opposite order
loot_number_sugar_swapped(min, max) == uniform_of(max, min)

\* the arm of loot_number for an object without 'type' holding 'min' and 'max'
loot_number_sugar(min, max) == uniform_of(min, max)

RECURSIVE loot_number(_)
loot_number(number_object) ==
    IF IsNumber(number_object) THEN
        loot_number_literal(number_object)
    ELSE IF HasKey(number_object, "type") THEN
        LET Sub(key) == IF HasKey(number_object, key)
                        THEN loot_number(GetKey(number_object, key))
                        ELSE Raise("KeyError")
            target == GetKey(number_object, "target")
            Target ==
                IF ~HasKey(number_object, "target") THEN Raise("KeyError")
                ELSE IF IsStr(target) THEN Str(UpperStr(PyStr(target)))
                ELSE IF target.k # "obj" THEN Raise("TypeError")
                ELSE IF ~HasKey(target, "type") THEN Raise("KeyError")
                ELSE IF KeyIs(target, "type", "minecraft:fixed") THEN
                    Cat(<<Lit(<<"fromString", "(", "\"">>),
                          RawOf(target, "name"),
                          Lit(<<"\"", ")">>)>>)
                ELSE IF HasKey(target, "target")
                     THEN Str(UpperStr(PyStr(GetKey(target, "target"))))
                     ELSE Raise("KeyError")
        IN
        CASE KeyIs(number_object, "type", "minecraft:constant") ->
               Cat(<<Lit(<<"ConstantLootNumberProvider.create", "(">>),
                     RawOf(number_object, "value"),
                     Lit(<<"F", ")">>)>>)
          [] KeyIs(number_object, "type", "minecraft:uniform") ->
               uniform_of(Sub("min"), Sub("max"))
          [] KeyIs(number_object, "type", "minecraft:binomial") ->
               Cat(<<Lit(<<"new BinomialLootNumberProvider", "(">>),
                     Sub("n"),
                     Lit(<<", ">>),
                     Sub("p"),
                     Lit(<<")">>)>>)
          [] KeyIs(number_object, "type", "minecraft:score") ->
               Cat(<<Lit(<<"ScoreLootNumberProvider.create", "(", "LootContext.EntityTarget.">>),
                     Target,
                     Lit(<<", ", "\"">>),
                     RawOf(number_object, "score"),
                     Lit(<<"\"">>),
                     IF HasKey(number_object, "scale")
                     THEN Cat(<<Lit(<<", ">>), StrOf(number_object, "scale"), Lit(<<"F">>)>>)
                     ELSE Lit(<<>>),
                     Lit(<<")">>)>>)
          [] KeyIs(number_object, "type", "minecraft:enchantment_level") ->
               Cat(<<Lit(<<"new EnchantmentLevelLootNumberProvider", "(">>),
                     IF HasKey(number_object, "amount")
                     THEN enchantment_level_value(GetKey(number_object, "amount"))
                     ELSE Raise("KeyError"),
                     Lit(<<")">>)>>)
          [] OTHER -> None
    ELSE IF HasKey(number_object, "min") /\ HasKey(number_object, "max") THEN
        loot_number_sugar(loot_number(GetKey(number_object, "min")),
                          loot_number(GetKey(number_object, "max")))
    ELSE None

bounded_int_unary_operator(value_object) ==
    IF value_object.k # "obj" THEN Raise("AttributeError")
    ELSE
        LET has_min == HasKey(value_object, "min")
            has_max == HasKey(value_object, "max")
        IN
        IF IsInt(value_object) THEN
            Str(<<"BoundedIntUnaryOperator.create", "(">> \o PyStr(value_object) \o <<")">>)
        ELSE IF /\ has_min /\ IsInt(GetKey(value_object, "min"))
                /\ has_max /\ IsInt(GetKey(value_object, "max")) THEN
            Str(<<"BoundedIntUnaryOperator.create", "(">>
                \o PyStr(GetKey(value_object, "min")) \o <<", ">>
                \o PyStr(GetKey(value_object, "max")) \o <<")">>)
        ELSE
            Cat(<<Lit(<<"new BoundedIntUnaryOperator", "(">>),
                  IF has_min THEN loot_number(GetKey(value_object, "min")) ELSE Lit(<<"null">>),
                  Lit(<<", ">>),
                  IF has_max THEN loot_number(GetKey(value_object, "max")) ELSE Lit(<<"null">>),
                  Lit(<<")">>)>>)

\* value_object[key] for the else branch of a range: a number cannot be
\* subscripted, an object may lack the key
RangeBound(value_object, key) ==
    IF value_object.k # "obj" THEN Raise("TypeError") ELSE StrOf(value_object, key)

double_range(value_object) ==
    IF IsNumber(value_object) THEN
        Str(<<"NumberRange.DoubleRange.exactly", "(">> \o PyStr(value_object) \o <<"F", ")">>)
    ELSE
        Cat(<<Lit(<<"NumberRange.DoubleRange.between", "(">>),
              RangeBound(value_object, "min"),
              Lit(<<"F", ", ">>),
              RangeBound(value_object, "max"),
              Lit(<<"F", ")">>)>>)

double_range_or_any(obj, value_name) ==
    IF HasKey(obj, value_name) THEN double_range(GetKey(obj, value_name))
    ELSE Str(<<"NumberRange.DoubleRange.ANY">>)

int_range(value_object) ==
    IF IsInt(value_object) THEN
        Str(<<"NumberRange.IntRange.exactly", "(">> \o PyStr(value_object) \o <<")">>)
    ELSE
        Cat(<<Lit(<<"NumberRange.IntRange.between", "(">>),
              RangeBound(value_object, "min"),
              Lit(<<", ">>),
              RangeBound(value_object, "max"),
              Lit(<<")">>)>>)

int_range_or_any(obj, value_name) ==
    IF HasKey(obj, value_name) THEN int_range(GetKey(obj, value_name))
    ELSE Str(<<"NumberRange.IntRange.ANY">>)

\* "\t" * number_of_tabs
RECURSIVE tabs(_)
tabs(number_of_tabs) ==
    IF number_of_tabs <= 0 THEN <<>> ELSE <<"\t">> \o tabs(number_of_tabs - 1)

----------------------------------------------------------------------------
(* Predicate translators *)

\* "\n" + tabs(n)
NL(n) == <<"\n">> \o tabs(n)

\* a part of the result that is appended only under a condition
Opt(cond, part) == IF cond THEN part ELSE Lit(<<>>)

\* ("true" if x[key] else "false")
TrueFalse(x, key) == Str(IF Truthy(GetKey(x, key)) THEN <<"true">> ELSE <<"false">>)

\* for e in x[key], with result += before(e) + e + after for each element
RECURSIVE JoinRaw(_, _, _, _)
JoinRaw(l, i, before, after) ==
    IF i > Len(l) THEN Lit(<<>>)
    ELSE Cat(<<Lit(before),
               IF IsStr(l[i]) THEN Str(l[i].s) ELSE Raise("TypeError"),
               Lit(after),
               JoinRaw(l, i + 1, before, after)>>)

\* the same with str(e)
RECURSIVE JoinStr(_, _, _, _)
JoinStr(l, i, before, after) ==
    IF i > Len(l) THEN Lit(<<>>)
    ELSE Cat(<<Lit(before), Str(PyStr(l[i])), Lit(after), JoinStr(l, i + 1, before, after)>>)

\* result = result[:-2], for an outcome
Chop2R(r) == IF IsText(r) THEN Str(Chop2(r.t)) ELSE r

\* the wrapper of one id of a registry
RegistryEntryOpen(registry) ==
    <<"registries.getWrapperOrThrow", "(", registry, ")", ".getOrThrow", "(",
      "RegistryKey.of", "(", registry, ", ", "Identifier.of", "(", "\"">>

item_predicate(predicate_object, number_of_tabs) ==
    LET items == GetKey(predicate_object, "items")
        Items ==
            IF ~HasHash(PyStr(items)) THEN
                IF IsStr(items) THEN
                    Str(NL(number_of_tabs + 1)
                        \o <<".items", "(", "Registries.ITEM.get", "(", "Identifier.of", "(", "\"">>
                        \o PyStr(items) \o <<"\"", ")", ")", ")">>)
                ELSE IF items.k # "list" THEN Raise("TypeError")
                ELSE
                    Cat(<<Chop2R(Cat(<<Lit(NL(number_of_tabs + 1) \o <<".items", "(">>),
                                       JoinStr(items.l, 1,
                                               NL(number_of_tabs + 2)
                                               \o <<"Registries.ITEM.get", "(", "Identifier.of", "(", "\"">>,
                                               <<"\"", ")", ")", ", ">>)>>)),
                          Lit(<<")">>)>>)
            ELSE
                Str(NL(number_of_tabs + 1)
                    \o <<".tag", "(", "TagKey.of", "(", "RegistryKeys.ITEM", ", ",
                         "Identifier.of", "(", "\"">>
                    \o StripHash(PyStr(items)) \o <<"\"", ")", ")", ")">>)
    IN
    Cat(<<Lit(<<"ItemPredicate.Builder.create", "(", ")">>),
          Opt(HasKey(predicate_object, "items"), Items),
          Opt(HasKey(predicate_object, "count"),
              Cat(<<Lit(NL(number_of_tabs + 1) \o <<".count", "(">>),
                    int_range(GetKey(predicate_object, "count")),
                    Lit(<<")">>)>>))>>)

\* the biomes / structures call of a location predicate: ids is the
\* collection, scalar the value read for a single id
EntryList(ids, scalar, call_name, registry, number_of_tabs) ==
    LET open == NL(number_of_tabs + 1) \o <<call_name, "(", "RegistryEntryList.of", "(">>
    IN
    IF IsStr(ids) THEN
        Cat(<<Lit(open \o NL(number_of_tabs + 2) \o RegistryEntryOpen(registry)),
              scalar,
              Lit(<<"\"", ")", ")", ")">>),
              Lit(<<")", ")">>)>>)
    ELSE IF ids.k # "list" THEN Raise("TypeError")
    ELSE
        Cat(<<Chop2R(Cat(<<Lit(open),
                           JoinRaw(ids.l, 1,
                                   NL(number_of_tabs + 2) \o RegistryEntryOpen(registry),
                                   <<"\"", ")", ")", ")", ", ">>)>>)),
              Lit(<<")", ")">>)>>)

location_predicate(predicate_object, number_of_tabs) ==
    LET position == GetKey(predicate_object, "position")
        Axis(axis, call_name) ==
            Opt(HasKey(position, axis),
                Cat(<<Lit(NL(number_of_tabs + 1) \o <<call_name, "(">>),
                      double_range(GetKey(position, axis)),
                      Lit(<<")">>)>>))
        light == GetKey(predicate_object, "light")
        Light ==
            IF light.k # "obj" THEN Raise("TypeError")
            ELSE IF HasKey(light, "light") THEN
                Cat(<<Lit(NL(number_of_tabs + 1)
                          \o <<".light", "(", "LightPredicate.Builder.create", "(", ")",
                               ".light", "(", "NumberRange.IntRange.exactly", "(">>),
                      StrOf(light, "light"),
                      Lit(<<")", ")", ")">>)>>)
            ELSE
                Cat(<<Lit(NL(number_of_tabs + 1)
                          \o <<".light", "(", "LightPredicate.Builder.create", "(", ")",
                               ".light", "(", "NumberRange.IntRange.between", "(">>),
                      StrOf(light, "min"),
                      Lit(<<", ">>),
                      StrOf(light, "max"),
                      Lit(<<")", ")", ")">>)>>)
        Flag(key, call_name) ==
            Opt(HasKey(predicate_object, key),
                Cat(<<Lit(NL(number_of_tabs + 1) \o <<call_name, "(">>),
                      TrueFalse(predicate_object, key),
                      Lit(<<")">>)>>))
        block == GetKey(predicate_object, "block")
        blocks == GetKey(block, "blocks")
        Block ==
            Cat(<<Lit(NL(number_of_tabs + 1)
                      \o <<".block", "(", "BlockPredicate.Builder.create", "(", ")">>),
                  Opt(HasKey(block, "blocks"),
                      IF ~HasHash(PyStr(blocks)) THEN
                          Cat(<<Lit(NL(number_of_tabs + 2)
                                    \o <<".blocks", "(", "Registries.BLOCK.get", "(",
                                         "Identifier.of", "(", "\"">>),
                                IF IsStr(blocks) THEN Str(blocks.s) ELSE Raise("TypeError"),
                                Lit(<<"\"", ")", ")", ")", ")">>)>>)
                      ELSE
                          Str(NL(number_of_tabs + 2)
                              \o <<".tag", "(", "TagKey.of", "(", "RegistryKeys.BLOCK", ", ",
                                   "Identifier.of", "(", "\"">>
                              \o StripHash(PyStr(blocks))
                              \o <<"\"", ")", ")", ")", ")">>))>>)
        fluid == GetKey(predicate_object, "fluid")
        fluids == GetKey(fluid, "fluids")
        Fluid ==
            Cat(<<Lit(NL(number_of_tabs + 1)
                      \o <<".fluid", "(", "FluidPredicate.Builder.create", "(", ")">>),
                  Opt(HasKey(fluid, "fluids"),
                      IF ~HasHash(PyStr(fluids)) THEN
                          Cat(<<Lit(NL(number_of_tabs + 2)
                                    \o <<".fluid", "(", "Registries.FLUID.get", "(",
                                         "Identifier.of", "(", "\"">>),
                                IF IsStr(fluids) THEN Str(fluids.s) ELSE Raise("TypeError"),
                                Lit(<<"\"", ")", ")", ")", ")">>)>>)
                      ELSE
                          Str(NL(number_of_tabs + 2)
                              \o <<".tag", "(", "Registries.FLUID.getOrCreateEntryList", "(",
                                   "TagKey.of", "(", "RegistryKeys.FLUID", ", ",
                                   "Identifier.of", "(", "\"">>
                              \o StripHash(PyStr(fluids))
                              \o <<"\"", ")", ")", ")", ")", " ">>))>>)
    IN
    Cat(<<Lit(<<"LocationPredicate.Builder.create", "(", ")">>),
          Opt(HasKey(predicate_object, "position"),
              Cat(<<Axis("x", ".x"), Axis("y", ".y"), Axis("z", ".z")>>)),
          Opt(HasKey(predicate_object, "biomes"),
              EntryList(GetKey(predicate_object, "biomes"),
                        RawOf(predicate_object, "biomes"),
                        ".biome", "RegistryKeys.BIOME", number_of_tabs)),
          Opt(HasKey(predicate_object, "structures"),
              EntryList(GetKey(predicate_object, "structures"),
                        RawOf(predicate_object, "biomes"),
                        ".structure", "RegistryKeys.STRUCTURE", number_of_tabs)),
          Opt(HasKey(predicate_object, "dimension"),
              Cat(<<Lit(NL(number_of_tabs + 1)
                        \o <<".dimension", "(", "RegistryKey.of", "(", "RegistryKeys.WORLD", ", ",
                             "Identifier.of", "(", "\"">>),
                    RawOf(predicate_object, "dimension"),
                    Lit(<<"\"", ")", ")", ")">>)>>)),
          Opt(HasKey(predicate_object, "light"), Light),
          Flag("smokey", ".smokey"),
          Flag("can_see_sky", ".canSeeSky"),
          Opt(HasKey(predicate_object, "block"), Block),
          Opt(HasKey(predicate_object, "fluid"), Fluid)>>)

RECURSIVE entity_predicate(_, _)
entity_predicate(predicate_object, number_of_tabs) ==
    LET type == GetKey(predicate_object, "type")
        Type ==
            IF ~HasHash(PyStr(type)) THEN
                Cat(<<Lit(NL(number_of_tabs + 1)
                          \o <<".type", "(", "EntityTypePredicate.create", "(",
                               "Registries.ENTITY_TYPE.get", "(", "Identifier.of", "(", "\"">>),
                      IF IsStr(type) THEN Str(type.s) ELSE Raise("TypeError"),
                      Lit(<<"\"", ")", ")", ")", ")">>)>>)
            ELSE
                Str(NL(number_of_tabs + 1)
                    \o <<".type", "(", "EntityTypePredicate.create", "(", "TagKey.of", "(",
                         "RegistryKeys.ENTITY_TYPE", ", ", "Identifier.of", "(", "\"">>
                    \o StripHash(PyStr(type)) \o <<"\"", ")", ")", ")", ")", " ">>)
        Location(key, call_name) ==
            Opt(HasKey(predicate_object, key),
                Cat(<<Lit(NL(number_of_tabs + 1) \o <<call_name, "(">>),
                      location_predicate(GetKey(predicate_object, key), number_of_tabs + 1),
                      Lit(<<")">>)>>))
        Entity(key, call_name) ==
            Opt(HasKey(predicate_object, key),
                Cat(<<Lit(NL(number_of_tabs + 1) \o <<call_name, "(">>),
                      entity_predicate(GetKey(predicate_object, key), number_of_tabs + 1),
                      Lit(<<")">>)>>))
        movement == GetKey(predicate_object, "movement")
        distance == GetKey(predicate_object, "distance")
        flags == GetKey(predicate_object, "flags")
        Flag(key, call_name) ==
            Opt(HasKey(flags, key),
                Cat(<<Lit(NL(number_of_tabs + 2) \o <<call_name, "(">>),
                      TrueFalse(flags, key),
                      Lit(<<")">>)>>))
        equipment == GetKey(predicate_object, "equipment")
        Slot(key, call_name) ==
            Opt(HasKey(equipment, key),
                Cat(<<Lit(NL(number_of_tabs + 2) \o <<call_name, "(">>),
                      item_predicate(GetKey(equipment, key), number_of_tabs + 2),
                      Lit(<<")">>)>>))
        effects == GetKey(predicate_object, "effects")
        OptionalOf(effect_data, key, sep) ==
            IF HasKey(effect_data, key)
            THEN Str((IF Truthy(GetKey(effect_data, key))
                      THEN <<"Optional.of", "(", "true", ")">>
                      ELSE <<"Optional.of", "(", "false", ")">>) \o sep)
            ELSE Str(<<"Optional.empty", "(", ")">> \o sep)
        Effect(effect_name, effect_data) ==
            Cat(<<Lit(NL(number_of_tabs + 2)
                      \o <<".addEffect", "(", "registries.getWrapperOrThrow", "(",
                           "RegistryKeys.STATUS_EFFECT", ")", ".getOrThrow", "(",
                           "RegistryKey.of", "(", "RegistryKeys.STATUS_EFFECT", ", ",
                           "Identifier.of", "(", "\"", effect_name, "\"", ")", ")", ")", ", ">>
                      \o NL(number_of_tabs + 3)
                      \o <<"new EntityEffectPredicate.EffectData", "(">>),
                  int_range_or_any(effect_data, "amplifier"),
                  Lit(<<", ">>),
                  int_range_or_any(effect_data, "duration"),
                  Lit(<<", ">>),
                  OptionalOf(effect_data, "ambient", <<", ">>),
                  OptionalOf(effect_data, "visible", <<>>),
                  Lit(<<")", ")">>)>>)
        Effects ==
            IF effects.k # "obj" THEN Raise("AttributeError")
            ELSE Cat(<<Lit(NL(number_of_tabs + 1)
                           \o <<".effects", "(", "EntityEffectPredicate.Builder.create", "(", ")">>)>>
                     \o [i \in 1..Len(effects.o) |-> Effect(effects.o[i].key, effects.o[i].val)]
                     \o <<Lit(<<")">>)>>)
    IN
    Cat(<<Lit(<<"EntityPredicate.Builder.create", "(", ")">>),
          Opt(HasKey(predicate_object, "type"), Type),
          Opt(HasKey(predicate_object, "team"),
              Cat(<<Lit(NL(number_of_tabs + 1) \o <<".team", "(", "\"">>),
                    RawOf(predicate_object, "team"),
                    Lit(<<"\"", ")">>)>>)),
          Location("location", ".location"),
          Opt(HasKey(predicate_object, "movement"),
              Cat(<<Lit(NL(number_of_tabs + 1) \o <<".movement", "(", "new MovementPredicate", "(">>),
                    double_range_or_any(movement, "x"), Lit(<<", ">>),
                    double_range_or_any(movement, "y"), Lit(<<", ">>),
                    double_range_or_any(movement, "z"), Lit(<<", ">>),
                    double_range_or_any(movement, "speed"), Lit(<<", ">>),
                    double_range_or_any(movement, "horizontal_speed"), Lit(<<", ">>),
                    double_range_or_any(movement, "vertical_speed"), Lit(<<", ">>),
                    double_range_or_any(movement, "fall_speed"),
                    Lit(<<")", ")">>)>>)),
          Location("movement_affected_by", ".movementAffectedBy"),
          Location("stepping_on", ".steppingOn"),
          Opt(HasKey(predicate_object, "distance"),
              Cat(<<Lit(NL(number_of_tabs + 1) \o <<".distance", "(", "new DistancePredicate", "(">>),
                    double_range_or_any(distance, "x"), Lit(<<", ">>),
                    double_range_or_any(distance, "y"), Lit(<<", ">>),
                    double_range_or_any(distance, "z"), Lit(<<", ">>),
                    double_range_or_any(distance, "horizontal"), Lit(<<", ">>),
                    double_range_or_any(distance, "absolute"),
                    Lit(<<")", ")">>)>>)),
          Opt(HasKey(predicate_object, "flags"),
              Cat(<<Lit(NL(number_of_tabs + 1)
                        \o <<".flags", "(", "EntityFlagsPredicate.Builder.create", "(", ")">>),
                    Flag("is_on_ground", ".onGround"),
                    Flag("is_on_fire", ".onFire"),
                    Flag("is_sneaking", ".sneaking"),
                    Flag("is_sprinting", ".sprinting"),
                    Flag("is_swimming", ".swimming"),
                    Flag("is_flying", ".flying"),
                    Flag("is_baby", ".isBaby"),
                    Lit(<<")">>)>>)),
          Opt(HasKey(predicate_object, "equipment"),
              Cat(<<Lit(NL(number_of_tabs + 1)
                        \o <<".equipment", "(", "EntityEquipmentPredicate.Builder.create", "(", ")">>),
                    Slot("mainhand", ".mainhand"),
                    Slot("offhand", ".offhand"),
                    Slot("head", ".head"),
                    Slot("chest", ".chest"),
                    Slot("legs", ".legs"),
                    Slot("feet", ".feet"),
                    Slot("body", ".body"),
                    Lit(<<")">>)>>)),
          Opt(HasKey(predicate_object, "periodic_tick"),
              Cat(<<Lit(NL(number_of_tabs + 1) \o <<".periodicTick", "(">>),
                    StrOf(predicate_object, "periodic_tick"),
                    Lit(<<")">>)>>)),
          Entity("vehicle", ".vehicle"),
          Entity("passenger", ".passenger"),
          Entity("targeted_entity", ".targetedEntity"),
          Opt(HasKey(predicate_object, "effects"), Effects)>>)

\* result += ... for tag in predicate_object['tags']
RECURSIVE DamageTags(_, _, _)
DamageTags(l, i, number_of_tabs) ==
    IF i > Len(l) THEN Lit(<<>>)
    ELSE Cat(<<Lit(NL(number_of_tabs + 1) \o <<".tag", "(", "TagPredicate.">>),
               IF ~HasKey(l[i], "expected") THEN Raise("KeyError")
               ELSE Str(IF Truthy(GetKey(l[i], "expected"))
                        THEN <<"expected">> ELSE <<"unexpected">>),
               Lit(<<"(", "TagKey.of", "(", "RegistryKeys.DAMAGE_TYPE", ", ",
                     "Identifier.of", "(", "\"">>),
               RawOf(l[i], "id"),
               Lit(<<"\"", ")", ")", ")", ")">>),
               DamageTags(l, i + 1, number_of_tabs)>>)

damage_source_predicate(predicate_object, number_of_tabs) ==
    LET Entity(key, call_name) ==
            Opt(HasKey(predicate_object, key),
                Cat(<<Lit(NL(number_of_tabs + 1) \o <<call_name, "(">>),
                      entity_predicate(GetKey(predicate_object, key), number_of_tabs + 1),
                      Lit(<<")">>)>>))
    IN
    Cat(<<Lit(<<"DamageSourcePredicate.Builder.create", "(", ")">>),
          Opt(HasKey(predicate_object, "tags"),
              IF GetKey(predicate_object, "tags").k # "list" THEN Raise("TypeError")
              ELSE DamageTags(GetKey(predicate_object, "tags").l, 1, number_of_tabs)),
          Entity("source_entity", ".sourceEntity"),
          Entity("direct_entity", ".directEntity"),
          Opt(HasKey(predicate_object, "is_direct"),
              Cat(<<Lit(NL(number_of_tabs + 1) \o <<".isDirect", "(">>),
                    TrueFalse(predicate_object, "is_direct"),
                    Lit(<<")">>)>>))>>)

----------------------------------------------------------------------------
(* Condition translator *)

\* str(r) of an outcome: str(None) is "None"
StrR(r) ==
    IF IsRaise(r) THEN r
    ELSE IF r.tag = "None" THEN Str(<<"None">>)
    ELSE r

\* result += ", " + str(chance) for every chance
RECURSIVE Chances(_, _)
Chances(l, i) ==
    IF i > Len(l) THEN <<>> ELSE <<", ">> \o PyStr(l[i]) \o Chances(l, i + 1)

\* the registry entry of an enchantment id, up to the id
EnchantmentOpen ==
    <<"registries.getWrapperOrThrow", "(", "RegistryKeys.ENCHANTMENT", ")", ".getOrThrow", "(",
      "RegistryKey.of", "(", "RegistryKeys.ENCHANTMENT", ", ", "Identifier.of", "(", "\"">>

RECURSIVE loot_condition(_, _)

\* result += "\n" + tabs + loot_condition(term) + ", " for every term
RECURSIVE Terms(_, _, _)
Terms(l, i, number_of_tabs) ==
    IF i > Len(l) THEN Lit(<<>>)
    ELSE Cat(<<Lit(NL(number_of_tabs + 1)),
               loot_condition(l[i], number_of_tabs + 1),
               Lit(<<", ">>),
               Terms(l, i + 1, number_of_tabs)>>)

\* the any_of / all_of arm
Combinator(builder, condition_object, number_of_tabs) ==
    IF IsRaise(IterOf(condition_object, "terms")) THEN IterOf(condition_object, "terms")
    ELSE Cat(<<Chop2R(Cat(<<Lit(<<builder, "(">>),
                            Terms(ListOf(condition_object, "terms"), 1, number_of_tabs)>>)),
               Lit(<<")">>)>>)

\* a variant of Offset that writes nothing for an absent axis
OffsetOmitted(condition_object, key, sep) ==
    IF HasKey(condition_object, key)
    THEN Str(PyStr(GetKey(condition_object, key)) \o sep)
    ELSE Str(sep)

\* the offset of one axis of a location check, followed by sep
Offset(condition_object, key, sep) ==
    IF HasKey(condition_object, key)
    THEN Str(PyStr(GetKey(condition_object, key)) \o sep)
    ELSE Str(<<"0">> \o sep)

loot_condition(condition_object, number_of_tabs) ==
    IF condition_object.k # "obj" THEN Raise("TypeError")
    ELSE IF ~HasKey(condition_object, "condition") THEN Raise("KeyError")
    ELSE
    LET Is(name) == KeyIs(condition_object, "condition", name)
        Flag(key, call_name) ==
            Opt(HasKey(condition_object, key),
                Cat(<<Lit(<<call_name, "(">>), TrueFalse(condition_object, key), Lit(<<")">>)>>))
        Field(key, translated) == IF HasKey(condition_object, key) THEN translated ELSE Raise("KeyError")
    IN
    CASE Is("minecraft:weather_check") ->
           Cat(<<Lit(<<"WeatherCheckLootCondition.create", "(", ")">>),
                 Flag("thundering", ".thundering"),
                 Flag("raining", ".raining")>>)
      [] Is("minecraft:value_check") ->
           Cat(<<Lit(<<"ValueCheckLootCondition.builder", "(">> \o NL(number_of_tabs + 1)),
                 Field("value", loot_number(GetKey(condition_object, "value"))),
                 Lit(<<", ">> \o NL(number_of_tabs + 1)),
                 Field("range", bounded_int_unary_operator(GetKey(condition_object, "range"))),
                 Lit(<<")">>)>>)
      [] Is("minecraft:time_check") ->
           Cat(<<Lit(<<"TimeCheckLootCondition.create", "(">> \o NL(number_of_tabs + 1)),
                 Field("value", bounded_int_unary_operator(GetKey(condition_object, "value"))),
                 Lit(<<")">>),
                 Opt(HasKey(condition_object, "period"),
                     Cat(<<Lit(NL(number_of_tabs + 2) \o <<".period", "(">>),
                           StrOf(condition_object, "period"),
                           Lit(<<")">>)>>))>>)
      [] Is("minecraft:table_bonus") ->
           Cat(<<Lit(<<"TableBonusLootCondition.builder", "(">> \o NL(number_of_tabs + 1)
                     \o EnchantmentOpen),
                 RawOf(condition_object, "enchantment"),
                 Lit(<<"\"", ")", ")">>),
                 IF IsRaise(IterOf(condition_object, "chances"))
                 THEN IterOf(condition_object, "chances")
                 ELSE Str(Chances(ListOf(condition_object, "chances"), 1)),
                 Lit(<<")", ")">>)>>)
      [] Is("minecraft:survives_explosion") ->
           Str(<<"SurvivesExplosionLootCondition.builder", "(", ")">>)
      [] Is("minecraft:reference") ->
           Cat(<<Lit(<<"ReferenceLootCondition.builder", "(", "RegistryKey.of", "(",
                       "RegistryKeys.PREDICATE", ", ", "Identifier.of", "(", "\"">>),
                 RawOf(condition_object, "name"),
                 Lit(<<"\"", ")", ")", ")">>)>>)
      [] Is("minecraft:random_chance_with_enchanted_bonus") ->
           Cat(<<Lit(<<"new RandomChanceWithEnchantedBonusLootCondition", "(">>
                     \o NL(number_of_tabs + 1)),
                 StrOf(condition_object, "unenchanted_chance"),
                 Lit(<<"F", ", ">>),
                 Field("enchanted_chance",
                       StrR(enchantment_level_value(GetKey(condition_object, "enchanted_chance")))),
                 Lit(<<", ">> \o NL(number_of_tabs + 1) \o EnchantmentOpen),
                 RawOf(condition_object, "enchantment"),
                 Lit(<<"\"", ")", ")", ")", ")">>)>>)
      [] Is("minecraft:random_chance") ->
           Cat(<<Lit(<<"RandomChanceLootCondition.builder", "(">>),
                 Field("chance", loot_number(GetKey(condition_object, "chance"))),
                 Lit(<<")">>)>>)
      [] Is("minecraft:match_tool") ->
           Cat(<<Lit(<<"MatchToolLootCondition.builder", "(">> \o NL(number_of_tabs + 1)),
                 Field("predicate",
                       item_predicate(GetKey(condition_object, "predicate"), number_of_tabs + 1)),
                 Lit(<<")">>)>>)
      [] Is("minecraft:location_check") ->
           Cat(<<Lit(<<"LocationCheckLootCondition.builder", "(">> \o NL(number_of_tabs + 1)),
                 Field("predicate",
                       location_predicate(GetKey(condition_object, "predicate"), number_of_tabs + 1)),
                 Opt(\/ HasKey(condition_object, "offsetX")
                     \/ HasKey(condition_object, "offsetY")
                     \/ HasKey(condition_object, "offsetZ"),
                     Cat(<<Lit(NL(number_of_tabs + 1) \o <<", ", "new BlockPos", "(">>),
                           Offset(condition_object, "offsetX", <<", ">>),
                           Offset(condition_object, "offsetY", <<", ">>),
                           Offset(condition_object, "offsetZ", <<")">>)>>)),
                 Lit(<<")">>)>>)
      [] Is("minecraft:killed_by_player") ->
           Cat(<<Lit(<<"KilledByPlayerLootCondition.builder", "(", ")">>),
                 Opt(HasKey(condition_object, "inverse")
                       /\ Truthy(GetKey(condition_object, "inverse")),
                     Lit(<<".invert", "(", ")">>))>>)
      [] Is("minecraft:inverted") ->
           Cat(<<Lit(<<"InvertedLootCondition.builder", "(">> \o NL(number_of_tabs + 1)),
                 Field("term", loot_condition(GetKey(condition_object, "term"), number_of_tabs + 1)),
                 Lit(<<")">>)>>)
      [] Is("minecraft:entity_properties") ->
           Cat(<<Lit(<<"EntityPropertiesLootCondition.builder", "(">> \o NL(number_of_tabs + 1)
                     \o <<"LootContext.EntityTarget.">>),
                 IF HasKey(condition_object, "entity")
                 THEN Str(UpperStr(PyStr(GetKey(condition_object, "entity"))))
                 ELSE Raise("KeyError"),
                 Lit(<<", ">> \o NL(number_of_tabs + 1)),
                 Field("predicate",
                       entity_predicate(GetKey(condition_object, "predicate"), number_of_tabs + 1)),
                 Lit(<<")">>)>>)
      [] Is("minecraft:enchantment_active_check") ->
           IF ~HasKey(condition_object, "active") THEN Raise("KeyError")
           ELSE IF Truthy(GetKey(condition_object, "active"))
           THEN Str(<<"EnchantmentActiveCheckLootCondition", ".requireActive", "(", ")">>)
           ELSE Str(<<"EnchantmentActiveCheckLootCondition", ".requireInactive", "(", ")">>)
      [] Is("minecraft:damage_source_properties") ->
           Cat(<<Lit(<<"DamageSourcePropertiesLootCondition.builder", "(">> \o NL(number_of_tabs + 1)),
                 Field("predicate",
                       damage_source_predicate(GetKey(condition_object, "predicate"),
                                               number_of_tabs + 1)),
                 Lit(<<")">>)>>)
      [] Is("minecraft:any_of") ->
           Combinator("AnyOfLootCondition.builder", condition_object, number_of_tabs)
      [] Is("minecraft:all_of") ->
           Combinator("AllOfLootCondition.builder", condition_object, number_of_tabs)
      [] OTHER -> None

\* loot_function prints an empty line and returns the empty string
loot_function(function_object) == Str(<<>>)

----------------------------------------------------------------------------
(* Inputs: the documents and nodes the translators are run on *)

MaxNum == 12        \* integer literals range over -MaxNum..MaxNum
MaxWhole == 2       \* whole part of the decimal literals
MaxValues == 2      \* length of a lookup's values list
MaxTerms == 3       \* length of a combinator's terms list
MaxPools == 2       \* pools of a table
MaxIds == 2         \* length of a list of ids

\* all sequences over S of length at most n
SeqsUpTo(S, n) == UNION {[1..m -> S] : m \in 0..n}

IntLits == {JInt(n) : n \in (-MaxNum)..MaxNum}
FloatLits == {JFloat(w, d) : w \in 0..MaxWhole, d \in 0..9}
NumLits == IntLits \cup FloatLits

Typed(type, members) == JObj(<<Kv("type", JStr(<<type>>))>> \o members)
Cond(name, members) == JObj(<<Kv("condition", JStr(<<name>>))>> \o members)

\* --- EnchantmentLevelValue nodes
ELeaf == {JInt(2), JFloat(0, 5)}
ELV0 ==
    ELeaf \cup
    { Typed("minecraft:constant", <<Kv("value", JInt(3))>>),
      Typed("minecraft:constant", <<Kv("value", JStr(<<"3">>))>>),
      Typed("minecraft:levels_squared", <<Kv("added", JInt(1))>>),
      Typed("minecraft:linear", <<Kv("base", JFloat(0, 5)), Kv("per_level_above_first", JInt(1))>>),
      Typed("minecraft:linear", <<Kv("base", JInt(1))>>),
      Typed("minecraft:exponent", <<Kv("base", JInt(2))>>) }
ELV1 ==
    ELV0
    \cup { Typed("minecraft:clamped", <<Kv("value", v), Kv("min", JInt(0)), Kv("max", m)>>) :
             v \in ELV0, m \in ELeaf }
    \cup { Typed("minecraft:fraction", <<Kv("numerator", a), Kv("denominator", b)>>) :
             a \in ELV0, b \in ELV0 }
    \cup { Typed("minecraft:lookup", <<Kv("values", JList(l)), Kv("fallback", f)>>) :
             l \in SeqsUpTo(ELeaf, MaxValues), f \in ELV0 }
    \cup { Typed("minecraft:lookup", <<Kv("values", JList(<<JInt(1)>>))>>) }

\* --- NumberProvider nodes
Leaf == {JInt(1), JInt(3), JFloat(0, 5)}
Uniform(a, b) == Typed("minecraft:uniform", <<Kv("min", a), Kv("max", b)>>)
UniformSugar(a, b) == JObj(<<Kv("min", a), Kv("max", b)>>)
Binomial(a, b) == Typed("minecraft:binomial", <<Kv("n", a), Kv("p", b)>>)
ConstantNum == Typed("minecraft:constant", <<Kv("value", JInt(4))>>)
ConstantStr == Typed("minecraft:constant", <<Kv("value", JStr(<<"4">>))>>)
UnknownProvider == Typed("minecraft:storage", <<Kv("storage", JStr(<<"a:b">>)), Kv("path", JStr(<<"x">>))>>)

Pairs(A, B) ==
    {Uniform(a, b) : a \in A, b \in B}
    \cup {UniformSugar(a, b) : a \in A, b \in B}
    \cup {JObj(<<Kv("max", b), Kv("min", a)>>) : a \in A, b \in B}
    \cup {Binomial(a, b) : a \in A, b \in B}

Scores ==
    { Typed("minecraft:score", <<Kv("target", t), Kv("score", JStr(<<"kills">>))>> \o sc) :
        t \in { JStr(<<"this">>),
                Typed("minecraft:fixed", <<Kv("name", JStr(<<"steve">>))>>),
                Typed("minecraft:context", <<Kv("target", JStr(<<"killer">>))>>) },
        sc \in { <<>>, <<Kv("scale", JFloat(0, 5))>> } }
    \cup { Typed("minecraft:score", <<Kv("target", JStr(<<"this">>))>>) }

NP0 == Leaf \cup {ConstantNum, ConstantStr, UnknownProvider}
NP1 ==
    NP0 \cup Pairs(NP0, NP0) \cup Scores
    \cup { Typed("minecraft:enchantment_level", <<Kv("amount", a)>>) : a \in ELV0 }
    \cup { JObj(<<Kv("min", JInt(1))>>),
           Typed("minecraft:uniform", <<Kv("min", JInt(1))>>),
           JObj(<<>>) }
NP2 == NP1 \cup Pairs(NP1, {JInt(1), ConstantNum}) \cup Pairs({JInt(1), ConstantNum}, NP1)

\* --- BoundedIntRange nodes
RangeBounds ==
    IntLits \cup {JFloat(1, 5)}
    \cup { UniformSugar(JInt(1), JInt(3)), Uniform(JInt(0), JFloat(0, 5)),
           ConstantNum, ConstantStr, UnknownProvider,
           Typed("minecraft:enchantment_level", <<Kv("amount", JInt(2))>>) }
RangeObjects ==
    { JObj(<<Kv("min", a), Kv("max", b)>>) : a \in RangeBounds, b \in RangeBounds }
    \cup { JObj(<<Kv("max", b), Kv("min", a)>>) : a \in RangeBounds, b \in RangeBounds }
    \cup { JObj(<<Kv("min", a)>>) : a \in RangeBounds }
    \cup { JObj(<<Kv("max", b)>>) : b \in RangeBounds }
    \cup { JObj(<<>>) }
Ranges == RangeObjects \cup IntLits \cup {JFloat(1, 5)}

\* --- Condition nodes
Kbp == Cond("minecraft:killed_by_player", <<>>)
RandomChance == Cond("minecraft:random_chance", <<Kv("chance", JFloat(0, 5))>>)
UnknownCond == Cond("minecraft:entity_scores", <<Kv("entity", JStr(<<"this">>))>>)
AnyOf(l) == Cond("minecraft:any_of", <<Kv("terms", JList(l))>>)
AllOf(l) == Cond("minecraft:all_of", <<Kv("terms", JList(l))>>)
Inverted(c) == Cond("minecraft:inverted", <<Kv("term", c)>>)

CondBase ==
    { Kbp, RandomChance, UnknownCond,
      Cond("minecraft:killed_by_player", <<Kv("inverse", JBool(TRUE))>>),
      Cond("minecraft:survives_explosion", <<>>),
      Cond("minecraft:weather_check", <<Kv("raining", JBool(TRUE))>>),
      Cond("minecraft:time_check", <<Kv("value", JInt(5))>>) }

Flat == {AnyOf(l) : l \in SeqsUpTo(CondBase, MaxTerms)}
        \cup {AllOf(l) : l \in SeqsUpTo(CondBase, MaxTerms)}

Mini == {Kbp, RandomChance, UnknownCond}
Inner ==
    {AnyOf(<<x>>) : x \in Mini} \cup {AllOf(<<x>>) : x \in Mini}
    \cup {AnyOf(<<x, y>>) : x \in Mini, y \in Mini}
    \cup {AllOf(<<x, y>>) : x \in Mini, y \in Mini}
    \cup {Inverted(x) : x \in Mini}
Nested ==
    {AnyOf(<<x, y>>) : x \in Mini \cup Inner, y \in Mini \cup Inner}
    \cup {AllOf(<<x, y>>) : x \in Mini \cup Inner, y \in Mini \cup Inner}
Deep ==
    {AnyOf(<<Inverted(x), y>>) : x \in Inner, y \in Inner}
    \cup {AllOf(<<y, Inverted(x)>>) : x \in Inner, y \in Inner}

LocationPredicates ==
    { JObj(<<>>),
      JObj(<<Kv("biomes", JStr(<<"minecraft:plains">>))>>),
      JObj(<<Kv("dimension", JStr(<<"minecraft:overworld">>)), Kv("smokey", JBool(TRUE))>>) }
OffsetValues == {JInt(-2), JInt(0), JInt(7)}
OffsetMembers(key) == {<<>>} \cup {<<Kv(key, v)>> : v \in OffsetValues}
LocationChecks ==
    { Cond("minecraft:location_check", <<Kv("predicate", p)>> \o x \o y \o z) :
        p \in LocationPredicates, x \in OffsetMembers("offsetX"),
        y \in OffsetMembers("offsetY"), z \in OffsetMembers("offsetZ") }
    \cup
    { Cond("minecraft:location_check", z \o y \o x \o <<Kv("predicate", p)>>) :
        p \in LocationPredicates, x \in OffsetMembers("offsetX"),
        y \in OffsetMembers("offsetY"), z \in OffsetMembers("offsetZ") }
    \cup
    { Cond("minecraft:location_check", x) : x \in OffsetMembers("offsetX") }

\* a chance whose enchanted_chance has a type that enchantment_level_value does not match
UnknownEnchantedChance ==
    Cond("minecraft:random_chance_with_enchanted_bonus",
         <<Kv("unenchanted_chance", JFloat(0, 1)),
           Kv("enchanted_chance", Typed("minecraft:exponent", <<>>)),
           Kv("enchantment", JStr(<<"minecraft:looting">>))>>)

OtherConds ==
    { Cond("minecraft:value_check",
           <<Kv("value", JInt(1)), Kv("range", JObj(<<Kv("min", JInt(1)), Kv("max", JInt(5))>>))>>),
      Cond("minecraft:value_check", <<Kv("value", JInt(1)), Kv("range", JInt(5))>>),
      Cond("minecraft:time_check",
           <<Kv("value", JObj(<<Kv("min", JInt(0))>>)), Kv("period", JInt(24000))>>),
      Cond("minecraft:table_bonus",
           <<Kv("enchantment", JStr(<<"minecraft:fortune">>)),
             Kv("chances", JList(<<JFloat(0, 1), JFloat(0, 5)>>))>>),
      Cond("minecraft:reference", <<Kv("name", JStr(<<"my:pred">>))>>),
      Cond("minecraft:random_chance_with_enchanted_bonus",
           <<Kv("unenchanted_chance", JFloat(0, 1)), Kv("enchanted_chance", JInt(1)),
             Kv("enchantment", JStr(<<"minecraft:looting">>))>>),
      UnknownEnchantedChance,
      Cond("minecraft:match_tool",
           <<Kv("predicate", JObj(<<Kv("items", JStr(<<"minecraft:shears">>)),
                                    Kv("count", JInt(1))>>))>>),
      Cond("minecraft:entity_properties",
           <<Kv("entity", JStr(<<"this">>)),
             Kv("predicate", JObj(<<Kv("type", JStr(<<"minecraft:cow">>)),
                                    Kv("flags", JObj(<<Kv("is_baby", JBool(FALSE))>>))>>))>>),
      Cond("minecraft:killed_by_player", <<Kv("inverse", JBool(FALSE))>>),
      Inverted(Cond("minecraft:killed_by_player", <<Kv("inverse", JBool(TRUE))>>)),
      Inverted(Cond("minecraft:killed_by_player", <<Kv("inverse", JBool(FALSE))>>)),
      Inverted(Inverted(Kbp)),
      Inverted(Cond("minecraft:time_check", <<Kv("value", JInt(5))>>)),
      Cond("minecraft:enchantment_active_check", <<Kv("active", JBool(TRUE))>>),
      Cond("minecraft:enchantment_active_check", <<Kv("active", JBool(FALSE))>>),
      Cond("minecraft:damage_source_properties",
           <<Kv("predicate",
                JObj(<<Kv("tags", JList(<<JObj(<<Kv("id", JStr(<<"minecraft:is_fire">>)),
                                                 Kv("expected", JBool(TRUE))>>)>>)),
                       Kv("is_direct", JBool(TRUE))>>))>>),
      JObj(<<>>) }

Conditions == CondBase \cup Flat \cup Inner \cup Nested \cup Deep \cup LocationChecks \cup OtherConds

\* --- Predicate nodes
PlainId == JStr(<<"minecraft:stone">>)
OtherId == JStr(<<"minecraft:dirt">>)
TagId == JStr(<<"#", "minecraft:logs">>)
InnerHashId == JStr(<<"mod:a", "#", "b">>)
IdStrings == {PlainId, OtherId, TagId, InnerHashId}
IdLists == {JList(l) : l \in SeqsUpTo({PlainId, OtherId}, MaxIds)}

MinMax(a, b) == JObj(<<Kv("min", a), Kv("max", b)>>)

\* the objects whose members are at most n of the members S, in every order
Arrangements(S, n) ==
    UNION { {JObj(q) : q \in {f \in [1..m -> S] : \A i, j \in 1..m : i # j => f[i].key # f[j].key}} :
              m \in 0..n }

ItemMembers == {Kv("items", x) : x \in IdStrings \cup IdLists}
CountMembers == {Kv("count", JInt(1)), Kv("count", MinMax(JInt(1), JInt(3)))}
ItemPreds == Arrangements(ItemMembers \cup CountMembers, 2)

BiomeMembers == {Kv("biomes", x) : x \in {PlainId} \cup IdLists}
StructureMembers == {Kv("structures", x) : x \in {OtherId} \cup IdLists}
BlockMembers ==
    {Kv("block", JObj(<<>>))} \cup {Kv("block", JObj(<<Kv("blocks", x)>>)) : x \in IdStrings}
FluidMembers ==
    {Kv("fluid", JObj(<<>>))} \cup {Kv("fluid", JObj(<<Kv("fluids", x)>>)) : x \in IdStrings}
LocationMembers ==
    { Kv("position", JObj(<<Kv("x", JFloat(1, 5)), Kv("y", MinMax(JInt(0), JInt(64)))>>)),
      Kv("dimension", JStr(<<"minecraft:overworld">>)),
      Kv("light", JObj(<<Kv("light", JInt(7))>>)),
      Kv("smokey", JBool(TRUE)),
      Kv("can_see_sky", JBool(FALSE)),
      Kv("biomes", PlainId),
      Kv("block", JObj(<<Kv("blocks", PlainId)>>)),
      Kv("fluid", JObj(<<Kv("fluids", PlainId)>>)) }
LocPreds ==
    Arrangements(BiomeMembers \cup StructureMembers, 2)
    \cup Arrangements(BlockMembers \cup FluidMembers, 2)
    \cup Arrangements(LocationMembers, 3)
    \cup { JObj(<<Kv("position", JObj(<<Kv("y", MinMax(JInt(0), JInt(64))), Kv("x", JFloat(1, 5))>>))>>),
           JObj(<<Kv("light", MinMax(JInt(0), JInt(7)))>>),
           JObj(<<Kv("light", JObj(<<Kv("max", JInt(7)), Kv("min", JInt(0))>>))>>) }

EntityMembers ==
    { Kv("type", JStr(<<"minecraft:cow">>)),
      Kv("team", JStr(<<"red">>)),
      Kv("location", JObj(<<Kv("biomes", PlainId)>>)),
      Kv("flags", JObj(<<Kv("is_baby", JBool(TRUE)), Kv("is_on_fire", JBool(FALSE))>>)),
      Kv("equipment", JObj(<<Kv("mainhand", JObj(<<Kv("items", PlainId)>>))>>)),
      Kv("vehicle", JObj(<<Kv("type", TagId)>>)),
      Kv("periodic_tick", JInt(20)),
      Kv("effects", JObj(<<Kv("minecraft:speed",
                              JObj(<<Kv("amplifier", JInt(1)), Kv("visible", JBool(TRUE))>>))>>)) }
EntityPreds ==
    Arrangements({Kv("type", x) : x \in IdStrings}, 1)
    \cup Arrangements(EntityMembers, 3)
    \cup { JObj(<<Kv("flags", JObj(<<Kv("is_on_fire", JBool(FALSE)), Kv("is_baby", JBool(TRUE))>>))>>),
           JObj(<<Kv("equipment", JObj(<<Kv("head", JObj(<<Kv("items", TagId)>>)),
                                         Kv("mainhand", JObj(<<Kv("items", PlainId)>>))>>))>>),
           JObj(<<Kv("equipment", JObj(<<Kv("mainhand", JObj(<<Kv("items", PlainId)>>)),
                                         Kv("head", JObj(<<Kv("items", TagId)>>))>>))>>),
           JObj(<<Kv("distance", JObj(<<Kv("absolute", MinMax(JInt(0), JInt(8)))>>))>>),
           JObj(<<Kv("movement", JObj(<<Kv("speed", JFloat(0, 5)), Kv("x", JInt(1))>>))>>),
           JObj(<<Kv("movement", JObj(<<Kv("x", JInt(1)), Kv("speed", JFloat(0, 5))>>))>>),
           JObj(<<Kv("effects", JObj(<<Kv("minecraft:speed",
                                          JObj(<<Kv("visible", JBool(TRUE)), Kv("amplifier", JInt(1))>>))>>))>>),
           JObj(<<Kv("passenger", JObj(<<Kv("team", JStr(<<"red">>)), Kv("type", JStr(<<"minecraft:cow">>))>>)),
                  Kv("targeted_entity", JObj(<<Kv("stepping_on", JObj(<<Kv("block", JObj(<<>>))>>))>>))>>) }

DamageMembers ==
    { Kv("tags", JList(<<JObj(<<Kv("id", JStr(<<"minecraft:is_fire">>)), Kv("expected", JBool(TRUE))>>),
                         JObj(<<Kv("expected", JBool(FALSE)), Kv("id", JStr(<<"minecraft:is_fall">>))>>)>>)),
      Kv("source_entity", JObj(<<Kv("type", JStr(<<"minecraft:cow">>))>>)),
      Kv("direct_entity", JObj(<<Kv("flags", JObj(<<Kv("is_baby", JBool(TRUE))>>))>>)),
      Kv("is_direct", JBool(TRUE)) }
DamagePreds == Arrangements(DamageMembers, 4)


\* --- Pools and tables
\* a location check without its predicate
NoPredicate == Cond("minecraft:location_check", <<>>)

RollsMembers ==
    { <<Kv("rolls", JInt(1))>>,
      <<Kv("rolls", ConstantNum)>>,
      <<Kv("rolls", UniformSugar(JInt(1), JInt(3))), Kv("bonus_rolls", JFloat(0, 5))>>,
      <<Kv("bonus_rolls", JInt(2))>> }
ConditionsMembers ==
    { <<>>,
      <<Kv("conditions", JList(<<RandomChance>>))>>,
      <<Kv("conditions", JList(<<Kbp, Inverted(Kbp)>>))>> }
FunctionsMembers ==
    { <<>>,
      <<Kv("functions", JList(<<Typed("minecraft:set_count", <<Kv("count", JInt(2))>>)>>))>> }

Pools ==
    { JObj(r \o c \o f) : r \in RollsMembers, c \in ConditionsMembers, f \in FunctionsMembers }
    \cup { JObj(<<>>),
           JObj(<<Kv("conditions", JList(<<Kbp>>)), Kv("rolls", JInt(2))>>),
           JObj(<<Kv("rolls", UnknownProvider)>>),
           JObj(<<Kv("rolls", JInt(1)), Kv("conditions", JList(<<Kbp, NoPredicate>>))>>),
           JObj(<<Kv("rolls", JInt(1)), Kv("conditions", JList(<<UnknownEnchantedChance>>))>>),
           JObj(<<Kv("rolls", JInt(1)), Kv("conditions", JList(<<Kbp, UnknownCond>>)),
                  Kv("functions", JList(<<JObj(<<>>)>>))>>) }

Tables ==
    { JObj(<<Kv("pools", JList(l))>>) : l \in SeqsUpTo(Pools, MaxPools) }
    \cup { JObj(<<>>) }

----------------------------------------------------------------------------
(* The run of loot_table_json_to_java *)

MODIFY == 0
REPLACE == 1

\* the path the module calls loot_table_json_to_java with
Path == "gameplay/sniffer_digging"

\* the number_of_tabs build_pool passes to loot_condition
PoolTabs == 2

Pending == [tag |-> "pending"]
NoCall == [fn |-> "none", arg |-> JNull]

OpeningLine ==
    <<"if ", "(", "key == RegistryKey.of", "(", "RegistryKeys.LOOT_TABLE", ", ",
      "Identifier.of", "(", "\"", Path, "\"", ")", ")", ")", " {", "\n">>
HeaderLine == <<"\t", "LootPool.Builder lootPool = LootPool.builder", "(", ")">>
AddPoolLine == <<"\t", "tableBuilder.pool", "(", "lootPool", ")", ";", "\n">>
ReturnPoolLine ==
    <<"\t", "return mergePools", "(", "original", ", ", "lootPool.build", "(", ")", ")", ";", "\n">>
ClosingLine == <<"}">>

\* table['pools']
PoolList == GetKey(table, "pools")

\* the pool build_pool is running on
pool == PoolList.l[pool_i]

\* print(line) when line is a string; the exception otherwise
Emit(line, next_pc) ==
    IF IsText(line)
    THEN /\ out' = Append(out, line.t)
         /\ pc' = next_pc
         /\ exc' = exc
    ELSE /\ out' = out
         /\ pc' = "raised"
         /\ exc' = line.exc

Init ==
    /\ pc = "start"
    /\ table \in Tables
    /\ event \in {MODIFY, REPLACE}
    /\ pool_i = 1
    /\ item_i = 1
    /\ out = <<>>
    /\ exc = "none"
    /\ call = NoCall
    /\ ret = Pending

\* print("if (key == ...) {\n"), then the dispatch on event
Opening ==
    /\ pc = "start"
    /\ out' = Append(out, OpeningLine)
    /\ pc' = IF event = 0 THEN "for_pools" ELSE IF event = 1 THEN "first_pool" ELSE "close"
    /\ UNCHANGED <<table, event, pool_i, item_i, exc, call, ret>>

\* for modify_pool in table['pools']: the next pool, or the end of the loop
ForPools ==
    /\ pc = "for_pools"
    /\ IF ~HasKey(table, "pools") THEN pc' = "raised" /\ exc' = "KeyError"
       ELSE IF PoolList.k # "list" THEN pc' = "raised" /\ exc' = "TypeError"
       ELSE IF pool_i > Len(PoolList.l) THEN pc' = "close" /\ exc' = exc
       ELSE pc' = "header" /\ exc' = exc
    /\ UNCHANGED <<table, event, pool_i, item_i, out, call, ret>>

\* build_pool(table['pools'][0])
FirstPool ==
    /\ pc = "first_pool"
    /\ IF ~HasKey(table, "pools") THEN pc' = "raised" /\ exc' = "KeyError"
       ELSE IF PoolList.k # "list" THEN pc' = "raised" /\ exc' = "TypeError"
       ELSE IF Len(PoolList.l) = 0 THEN pc' = "raised" /\ exc' = "IndexError"
       ELSE pc' = "header" /\ exc' = exc
    /\ UNCHANGED <<table, event, pool_i, item_i, out, call, ret>>

\* print("\tLootPool.Builder lootPool = LootPool.builder()")
Header ==
    /\ pc = "header"
    /\ Emit(Str(HeaderLine), "rolls")
    /\ UNCHANGED <<table, event, pool_i, item_i, call, ret>>

\* a variant of Rolls that prints the rolls line under MODIFY only
RollsOnlyOnModify ==
    /\ pc = "rolls"
    /\ IF HasKey(pool, "rolls") /\ event = 0
       THEN Emit(Cat(<<Lit(<<"\t", "\t", ".rolls", "(">>),
                        loot_number(GetKey(pool, "rolls")),
                        Lit(<<")">>)>>), "bonus_rolls")
       ELSE pc' = "bonus_rolls" /\ UNCHANGED <<out, exc>>
    /\ UNCHANGED <<table, event, pool_i, item_i, call, ret>>

\* if 'rolls' in pool: print("\t\t.rolls(" + loot_number(rolls) + ")")
Rolls ==
    /\ pc = "rolls"
    /\ IF HasKey(pool, "rolls")
       THEN Emit(Cat(<<Lit(<<"\t", "\t", ".rolls", "(">>),
                        loot_number(GetKey(pool, "rolls")),
                        Lit(<<")">>)>>), "bonus_rolls")
       ELSE pc' = "bonus_rolls" /\ UNCHANGED <<out, exc>>
    /\ UNCHANGED <<table, event, pool_i, item_i, call, ret>>

\* if 'bonus_rolls' in pool: print("\t\t.bonusRolls(" + loot_number(rolls) + ")")
BonusRolls ==
    /\ pc = "bonus_rolls"
    /\ IF HasKey(pool, "bonus_rolls")
       THEN Emit(Cat(<<Lit(<<"\t", "\t", ".bonusRolls", "(">>),
                        loot_number(GetKey(pool, "bonus_rolls")),
                        Lit(<<")">>)>>), "conditions")
       ELSE pc' = "conditions" /\ UNCHANGED <<out, exc>>
    /\ item_i' = 1
    /\ UNCHANGED <<table, event, pool_i, call, ret>>

\* the elements of pool[key] still to loop over
Remaining(key) ==
    /\ HasKey(pool, key)
    /\ GetKey(pool, key).k = "list"
    /\ item_i <= Len(GetKey(pool, key).l)

\* a variant of Condition that takes the conditions from the last to the first
ConditionFromLast ==
    /\ pc = "conditions"
    /\ Remaining("conditions")
    /\ Emit(Cat(<<Lit(<<"\t", "\t", ".conditionally", "(">>),
                   loot_condition(GetKey(pool, "conditions").l[Len(GetKey(pool, "conditions").l) + 1 - item_i],
                                  PoolTabs),
                   Lit(<<")">>)>>), "conditions")
    /\ item_i' = item_i + 1
    /\ UNCHANGED <<table, event, pool_i, call, ret>>

\* for condition in conditions: print("\t\t.conditionally(" + loot_condition(condition, 2) + ")")
Condition ==
    /\ pc = "conditions"
    /\ Remaining("conditions")
    /\ Emit(Cat(<<Lit(<<"\t", "\t", ".conditionally", "(">>),
                   loot_condition(GetKey(pool, "conditions").l[item_i], PoolTabs),
                   Lit(<<")">>)>>), "conditions")
    /\ item_i' = item_i + 1
    /\ UNCHANGED <<table, event, pool_i, call, ret>>

\* no 'conditions' in pool, or the loop is over
ConditionsDone ==
    /\ pc = "conditions"
    /\ ~Remaining("conditions")
    /\ pc' = "functions"
    /\ item_i' = 1
    /\ UNCHANGED <<table, event, pool_i, out, exc, call, ret>>

\* for function in functions: print("\t\t.apply(" + loot_function(function) + ")"),
\* where loot_function first prints an empty line
Function ==
    /\ pc = "functions"
    /\ Remaining("functions")
    /\ out' = out \o <<<<>>,
                       Cat(<<Lit(<<"\t", "\t", ".apply", "(">>),
                             loot_function(GetKey(pool, "functions").l[item_i]),
                             Lit(<<")">>)>>).t>>
    /\ item_i' = item_i + 1
    /\ UNCHANGED <<pc, table, event, pool_i, exc, call, ret>>

\* no 'functions' in pool, or the loop is over
FunctionsDone ==
    /\ pc = "functions"
    /\ ~Remaining("functions")
    /\ pc' = "end"
    /\ item_i' = 1
    /\ UNCHANGED <<table, event, pool_i, out, exc, call, ret>>

\* the closing statement of build_pool, and the return to the caller
End ==
    /\ pc = "end"
    /\ IF event = 0
       THEN /\ out' = Append(out, AddPoolLine)
            /\ pool_i' = pool_i + 1
            /\ pc' = "for_pools"
       ELSE IF event = 1
       THEN /\ out' = Append(out, ReturnPoolLine)
            /\ pool_i' = pool_i
            /\ pc' = "close"
       ELSE UNCHANGED <<out, pool_i>> /\ pc' = "close"
    /\ UNCHANGED <<table, event, item_i, exc, call, ret>>

\* print("}")
Closing ==
    /\ pc = "close"
    /\ out' = Append(out, ClosingLine)
    /\ pc' = "done"
    /\ UNCHANGED <<table, event, pool_i, item_i, exc, call, ret>>

Next ==
    \/ Opening
    \/ ForPools
    \/ FirstPool
    \/ Header
    \/ Rolls
    \/ BonusRolls
    \/ Condition
    \/ ConditionsDone
    \/ Function
    \/ FunctionsDone
    \/ End
    \/ Closing

Spec == Init /\ [][Next]_vars

----------------------------------------------------------------------------
(* One translator called on one node *)

Calls ==
    {[fn |-> "loot_number", arg |-> a] : a \in NumLits \cup NP2}
    \cup {[fn |-> "enchantment_level_value", arg |-> a] : a \in NumLits \cup ELV1}
    \cup {[fn |-> "bounded_int_unary_operator", arg |-> a] : a \in Ranges}
    \cup {[fn |-> "loot_condition", arg |-> a] : a \in Conditions}
    \cup {[fn |-> "location_predicate", arg |-> a] : a \in LocPreds}
    \cup {[fn |-> "entity_predicate", arg |-> a] : a \in EntityPreds}
    \cup {[fn |-> "item_predicate", arg |-> a] : a \in ItemPreds}
    \cup {[fn |-> "damage_source_predicate", arg |-> a] : a \in DamagePreds}

InitCall ==
    /\ pc = "call"
    /\ table = JObj(<<>>)
    /\ event = MODIFY
    /\ pool_i = 1
    /\ item_i = 1
    /\ out = <<>>
    /\ exc = "none"
    /\ call \in Calls
    /\ ret = Pending

Return(r) ==
    /\ pc = "call"
    /\ ret = Pending
    /\ ret' = r
    /\ pc' = "returned"
    /\ UNCHANGED <<table, event, pool_i, item_i, out, exc, call>>

CallLootNumber ==
    /\ call.fn = "loot_number"
    /\ Return(loot_number(call.arg))

CallEnchantmentLevelValue ==
    /\ call.fn = "enchantment_level_value"
    /\ Return(enchantment_level_value(call.arg))

CallBoundedIntUnaryOperator ==
    /\ call.fn = "bounded_int_unary_operator"
    /\ Return(bounded_int_unary_operator(call.arg))

CallLootCondition ==
    /\ call.fn = "loot_condition"
    /\ Return(loot_condition(call.arg, PoolTabs))

\* the number_of_tabs loot_condition passes to the predicate translators
PredicateTabs == PoolTabs + 1

CallLocationPredicate ==
    /\ call.fn = "location_predicate"
    /\ Return(location_predicate(call.arg, PredicateTabs))

CallEntityPredicate ==
    /\ call.fn = "entity_predicate"
    /\ Return(entity_predicate(call.arg, PredicateTabs))

CallItemPredicate ==
    /\ call.fn = "item_predicate"
    /\ Return(item_predicate(call.arg, PredicateTabs))

CallDamageSourcePredicate ==
    /\ call.fn = "damage_source_predicate"
    /\ Return(damage_source_predicate(call.arg, PredicateTabs))

NextCall ==
    \/ CallLootNumber
    \/ CallEnchantmentLevelValue
    \/ CallBoundedIntUnaryOperator
    \/ CallLootCondition
    \/ CallLocationPredicate
    \/ CallEntityPredicate
    \/ CallItemPredicate
    \/ CallDamageSourcePredicate

SpecCall == InitCall /\ [][NextCall]_vars

----------------------------------------------------------------------------
(* Properties *)

returned(fn) == pc = "returned" /\ call.fn = fn

\* --- reading a numeric literal back from its characters

DigitValue(c) ==
    CASE c = "0" -> 0 [] c = "1" -> 1 [] c = "2" -> 2 [] c = "3" -> 3 [] c = "4" -> 4
      [] c = "5" -> 5 [] c = "6" -> 6 [] c = "7" -> 7 [] c = "8" -> 8 [] c = "9" -> 9
      [] OTHER -> -1

IsDigits(t) == Len(t) > 0 /\ \A i \in 1..Len(t) : DigitValue(t[i]) >= 0

RECURSIVE Decimal(_)
Decimal(t) ==
    IF Len(t) = 0 THEN 0
    ELSE 10 * Decimal(SubSeq(t, 1, Len(t) - 1)) + DigitValue(t[Len(t)])

\* the JSON number whose decimal notation is t, JNull when t is not one
Denoted(t) ==
    LET neg == Len(t) > 0 /\ t[1] = "-"
        body == IF neg THEN Tail(t) ELSE t
        dots == {i \in 1..Len(body) : body[i] = "."}
        sign(n) == IF neg THEN -n ELSE n
    IN  IF dots = {}
        THEN IF IsDigits(body) THEN JInt(sign(Decimal(body))) ELSE JNull
        ELSE LET i == CHOOSE i \in dots : TRUE
                 whole == SubSeq(body, 1, i - 1)
                 frac == SubSeq(body, i + 1, Len(body))
             IN  IF Cardinality(dots) = 1 /\ IsDigits(whole) /\ IsDigits(frac) /\ Len(frac) = 1 /\ ~neg
                 THEN JFloat(Decimal(whole), Decimal(frac))
                 ELSE JNull

IsLiteral(x) == x.k \in {"int", "float"}

\* C1: for every bare numeric literal n, loot_number returns
\* ConstantLootNumberProvider.create(<n>F): the Constant constructor, one
\* argument, whose characters denote exactly n, and nothing else.
C1_BareNumberIsConstant ==
    (returned("loot_number") /\ IsLiteral(call.arg)) =>
        /\ IsText(ret)
        /\ Len(ret.t) >= 5
        /\ SubSeq(ret.t, 1, 2) = <<"ConstantLootNumberProvider.create", "(">>
        /\ SubSeq(ret.t, Len(ret.t) - 1, Len(ret.t)) = <<"F", ")">>
        /\ Denoted(SubSeq(ret.t, 3, Len(ret.t) - 2)) = call.arg

\* C1, scenario A: the number 4 has been translated to Constant(4); so has a
\* negative two-digit literal in another call
C1_Witness ==
    /\ returned("loot_number")
    /\ \/ /\ call.arg = JInt(4)
          /\ ret = Str(<<"ConstantLootNumberProvider.create", "(", "4", "F", ")">>)
       \/ /\ call.arg = JInt(-12)
          /\ ret = Str(<<"ConstantLootNumberProvider.create", "(", "-", "1", "2", "F", ")">>)

IsSugar(x) == x.k = "obj" /\ ~HasKey(x, "type") /\ HasKey(x, "min") /\ HasKey(x, "max")

\* C2: loot_number on {min: a, max: b} without a discriminator has the outcome
\* of loot_number on {type: "minecraft:uniform", min: a, max: b}, whatever the
\* operands a and b are, nested providers included.
C2_SugarIsUniform ==
    (returned("loot_number") /\ IsSugar(call.arg)) =>
        ret = loot_number(Uniform(GetKey(call.arg, "min"), GetKey(call.arg, "max")))

\* C2, scenario B: {min: 1, max: 3} has been translated to
\* Uniform(Constant(1), Constant(3))
C2_Witness ==
    /\ returned("loot_number")
    /\ call.arg = UniformSugar(JInt(1), JInt(3))
    /\ ret = Str(<<"new UniformLootNumberProvider", "(",
                   "ConstantLootNumberProvider.create", "(", "1", "F", ")", ", ",
                   "ConstantLootNumberProvider.create", "(", "3", "F", ")", ")">>)

IsExplicitConstant(x) ==
    /\ x.k = "obj"
    /\ KeyIs(x, "type", "minecraft:constant")
    /\ HasKey(x, "value")
    /\ IsLiteral(GetKey(x, "value"))

\* C3: {type: "minecraft:constant", value: v} with a numeric v is translated,
\* by loot_number and by enchantment_level_value alike, to the expression the
\* bare number v is translated to, and the translation does not fail.
C3_ExplicitConstantIsBareNumber ==
    /\ (returned("loot_number") /\ IsExplicitConstant(call.arg)) =>
           (IsText(ret) /\ ret = loot_number(GetKey(call.arg, "value")))
    /\ (returned("enchantment_level_value") /\ IsExplicitConstant(call.arg)) =>
           (IsText(ret) /\ ret = enchantment_level_value(GetKey(call.arg, "value")))

\* --- the inputs the schema allows, among those of the model

\* a NumberProvider node of the schema
RECURSIVE WellFormedNumber(_)
WellFormedNumber(x) ==
    \/ IsLiteral(x)
    \/ /\ x.k = "obj"
       /\ LET Is(name) == KeyIs(x, "type", name)
              Both(a, b) == /\ HasKey(x, a) /\ WellFormedNumber(GetKey(x, a))
                            /\ HasKey(x, b) /\ WellFormedNumber(GetKey(x, b))
          IN  CASE ~HasKey(x, "type") -> Both("min", "max")
                [] Is("minecraft:uniform") -> Both("min", "max")
                [] Is("minecraft:binomial") -> Both("n", "p")
                [] Is("minecraft:constant") -> HasKey(x, "value") /\ IsLiteral(GetKey(x, "value"))
                [] Is("minecraft:enchantment_level") ->
                     HasKey(x, "amount") /\ IsLiteral(GetKey(x, "amount"))
                [] OTHER -> FALSE

\* a BoundedIntRange object of the schema: {min?, max?} with provider bounds
IsRangeObject(x) ==
    /\ x.k = "obj"
    /\ \A i \in 1..Len(x.o) :
           /\ x.o[i].key \in {"min", "max"}
           /\ WellFormedNumber(x.o[i].val)

\* C4: on an object-shaped range, bounded_int_unary_operator returns
\* BoundedIntUnaryOperator.create(min, max) exactly when min and max are both
\* present and plain integers; on every other one it returns
\* new BoundedIntUnaryOperator(a, b), a being the compiled min or null when
\* min is absent, b the compiled max or null when max is absent.
C4_LiteralPairIffPlainIntegers ==
    (returned("bounded_int_unary_operator") /\ IsRangeObject(call.arg)) =>
        LET v == call.arg
            min == GetKey(v, "min")
            max == GetKey(v, "max")
            plain == HasKey(v, "min") /\ min.k = "int" /\ HasKey(v, "max") /\ max.k = "int"
            a == IF HasKey(v, "min") THEN loot_number(min) ELSE Str(<<"null">>)
            b == IF HasKey(v, "max") THEN loot_number(max) ELSE Str(<<"null">>)
        IN  IF plain
            THEN ret = Str(<<"BoundedIntUnaryOperator.create", "(">>
                           \o IntStr(min.v) \o <<", ">> \o IntStr(max.v) \o <<")">>)
            ELSE /\ IsText(ret)
                 /\ IsText(a)
                 /\ IsText(b)
                 /\ ret.t = <<"new BoundedIntUnaryOperator", "(">> \o a.t \o <<", ">> \o b.t \o <<")">>

\* a value_check or time_check whose range is a bare integer
IsBareRangeCheck(c) ==
    /\ c.k = "obj"
    /\ \/ /\ KeyIs(c, "condition", "minecraft:value_check")
          /\ HasKey(c, "value") /\ WellFormedNumber(GetKey(c, "value"))
          /\ GetKey(c, "range").k = "int"
       \/ /\ KeyIs(c, "condition", "minecraft:time_check")
          /\ GetKey(c, "value").k = "int"

\* C5: on a bare integer n, bounded_int_unary_operator returns
\* BoundedIntUnaryOperator.create(n); a value_check whose range, or a
\* time_check whose value, is a bare integer is translated without failing.
C5_BareIntegerIsDirectConstruction ==
    /\ (returned("bounded_int_unary_operator") /\ call.arg.k = "int") =>
           ret = Str(<<"BoundedIntUnaryOperator.create", "(">> \o IntStr(call.arg.v) \o <<")">>)
    /\ (returned("loot_condition") /\ IsBareRangeCheck(call.arg)) => IsText(ret)

IsCombinator(c) ==
    /\ c.k = "obj"
    /\ \/ KeyIs(c, "condition", "minecraft:any_of")
       \/ KeyIs(c, "condition", "minecraft:all_of")
    /\ GetKey(c, "terms").k = "list"

IsInverted(c) == c.k = "obj" /\ KeyIs(c, "condition", "minecraft:inverted") /\ HasKey(c, "term")

\* a condition of the schema, among the terms of the model's combinators
RECURSIVE WellFormedCondition(_)
WellFormedCondition(c) ==
    /\ c.k = "obj"
    /\ LET Is(name) == KeyIs(c, "condition", name)
       IN  CASE IsCombinator(c) ->
                  \A i \in 1..Len(GetKey(c, "terms").l) : WellFormedCondition(GetKey(c, "terms").l[i])
             [] IsInverted(c) -> WellFormedCondition(GetKey(c, "term"))
             [] Is("minecraft:killed_by_player") -> TRUE
             [] Is("minecraft:survives_explosion") -> TRUE
             [] Is("minecraft:weather_check") -> TRUE
             [] Is("minecraft:random_chance") -> HasKey(c, "chance") /\ IsLiteral(GetKey(c, "chance"))
             [] Is("minecraft:time_check") ->
                  HasKey(c, "value") /\ (GetKey(c, "value").k = "int" \/ IsRangeObject(GetKey(c, "value")))
             [] OTHER -> FALSE

\* the parentheses open before position i of t
Depth(t, i) ==
    Cardinality({j \in 1..(i - 1) : t[j] = "("}) - Cardinality({j \in 1..(i - 1) : t[j] = ")"})

\* the number of arguments of the call that t is
ArgCount(t) == 1 + Cardinality({i \in 1..Len(t) : t[i] = ", " /\ Depth(t, i) = 1})

\* the texts subs[i..], each on a line of its own, separated by ", "
RECURSIVE Listed(_, _, _)
Listed(subs, i, n) ==
    IF i > Len(subs) THEN <<>>
    ELSE NL(n) \o subs[i].t \o (IF i < Len(subs) THEN <<", ">> ELSE <<>>) \o Listed(subs, i + 1, n)

\* r is what c is translated to at n tabs, and every combinator of c, at any
\* depth, wraps the translations of its terms, one per term, in order
RECURSIVE EachWrapped(_, _, _)
EachWrapped(c, n, r) ==
    IF IsCombinator(c)
    THEN LET l == GetKey(c, "terms").l
             subs == [i \in 1..Len(l) |-> loot_condition(l[i], n + 1)]
             builder == IF KeyIs(c, "condition", "minecraft:any_of")
                        THEN "AnyOfLootCondition.builder" ELSE "AllOfLootCondition.builder"
         IN  /\ IsText(r)
             /\ \A i \in 1..Len(l) : IsText(subs[i])
             /\ r.t = <<builder, "(">> \o Listed(subs, 1, n + 1) \o <<")">>
             /\ ArgCount(r.t) = Len(l)
             /\ \A i \in 1..Len(l) : EachWrapped(l[i], n + 1, subs[i])
    ELSE IF IsInverted(c)
    THEN EachWrapped(GetKey(c, "term"), n + 1, loot_condition(GetKey(c, "term"), n + 1))
    ELSE TRUE

\* C6: an any_of / all_of with a non-empty list of terms is translated to
\* the matching builder call holding the translation of every term, one per
\* term and in the order of the list, so that the call has len(terms)
\* arguments; the same holds of the combinators nested in its terms.
C6_OneSubExpressionPerTerm ==
    (/\ returned("loot_condition")
     /\ IsCombinator(call.arg)
     /\ Len(GetKey(call.arg, "terms").l) > 0
     /\ WellFormedCondition(call.arg)) =>
        EachWrapped(call.arg, PoolTabs, ret)

IsLocationCheck(c) == c.k = "obj" /\ KeyIs(c, "condition", "minecraft:location_check")

\* the pieces of a that the two ", " of a three-argument list separate
Pieces(a) ==
    LET seps == {j \in 1..Len(a) : a[j] = ", "}
        j1 == CHOOSE j \in seps : \A k \in seps : j <= k
        j2 == CHOOSE j \in seps : \A k \in seps : j >= k
    IN  IF Cardinality(seps) # 2 THEN <<>>
        ELSE <<SubSeq(a, 1, j1 - 1), SubSeq(a, j1 + 1, j2 - 1), SubSeq(a, j2 + 1, Len(a))>>

\* C7: the translation of a location_check holds new BlockPos(x, y, z), as
\* the argument after the predicate, exactly when offsetX, offsetY or offsetZ
\* is present; x, y and z then denote, in this order, the values of offsetX,
\* offsetY and offsetZ, 0 standing for an absent one.  The offsets never make
\* the translation fail.
C7_BlockPosIffOffsetPresent ==
    (returned("loot_condition") /\ IsLocationCheck(call.arg)) =>
        LET c == call.arg
            p == location_predicate(GetKey(c, "predicate"), PoolTabs + 1)
            any == HasKey(c, "offsetX") \/ HasKey(c, "offsetY") \/ HasKey(c, "offsetZ")
            axis(key) == IF HasKey(c, key) THEN GetKey(c, key) ELSE JInt(0)
            t == ret.t
            at == {i \in 1..Len(t) : t[i] = "new BlockPos"}
            i == CHOOSE i \in at : TRUE
            args == Pieces(SubSeq(t, i + 2, Len(t) - 2))
        IN  /\ (HasKey(c, "predicate") /\ IsText(p)) => IsText(ret)
            /\ IsText(ret) =>
                 /\ (at # {}) <=> any
                 /\ any =>
                      /\ Cardinality(at) = 1
                      /\ t[i - 1] = ", "
                      /\ t[i + 1] = "("
                      /\ SubSeq(t, Len(t) - 1, Len(t)) = <<")", ")">>
                      /\ Len(args) = 3
                      /\ Denoted(args[1]) = axis("offsetX")
                      /\ Denoted(args[2]) = axis("offsetY")
                      /\ Denoted(args[3]) = axis("offsetZ")

\* C7: a location_check holding only offsetY = -2 has been translated, and
\* its text ends with the block position (0, -2, 0)
C7_Witness ==
    /\ returned("loot_condition")
    /\ call.arg = Cond("minecraft:location_check",
                       <<Kv("predicate", JObj(<<>>)), Kv("offsetY", JInt(-2))>>)
    /\ IsText(ret)
    /\ Len(ret.t) > 12
    /\ SubSeq(ret.t, Len(ret.t) - 10, Len(ret.t)) =
           <<", ", "new BlockPos", "(", "0", ", ", "-", "2", ", ", "0", ")", ")">>

\* --- the lines of one pool

\* the line that wraps the outcome r of a translator in a builder call
BuilderLine(name, r) == Cat(<<Lit(<<"\t", "\t", name, "(">>), r, Lit(<<")">>)>>)

\* the value of an optional list member of a pool
Members(p, key) == IF GetKey(p, key).k = "list" THEN GetKey(p, key).l ELSE <<>>

RECURSIVE ConditionLines(_, _)
ConditionLines(l, i) ==
    IF i > Len(l) THEN <<>>
    ELSE <<BuilderLine(".conditionally", loot_condition(l[i], PoolTabs))>> \o ConditionLines(l, i + 1)

RECURSIVE FunctionLines(_, _)
FunctionLines(l, i) ==
    IF i > Len(l) THEN <<>>
    ELSE <<Str(<<>>), BuilderLine(".apply", Str(<<>>))>> \o FunctionLines(l, i + 1)

\* the builder lines of pool p, as outcomes: header, rolls, bonus rolls, one
\* line per condition, and per function an empty line and its .apply line.
\* The mode is no parameter of it.
PoolLines(p) ==
    <<Str(HeaderLine)>>
    \o (IF HasKey(p, "rolls") THEN <<BuilderLine(".rolls", loot_number(GetKey(p, "rolls")))>> ELSE <<>>)
    \o (IF HasKey(p, "bonus_rolls")
        THEN <<BuilderLine(".bonusRolls", loot_number(GetKey(p, "bonus_rolls")))>> ELSE <<>>)
    \o ConditionLines(Members(p, "conditions"), 1)
    \o FunctionLines(Members(p, "functions"), 1)

Compiles(p) == \A i \in 1..Len(PoolLines(p)) : IsText(PoolLines(p)[i])

\* the texts of lines[i..] that come before the first that is no text
RECURSIVE Upto(_, _)
Upto(lines, i) ==
    IF i > Len(lines) \/ ~IsText(lines[i]) THEN <<>>
    ELSE <<lines[i].t>> \o Upto(lines, i + 1)

\* a pool of the schema
WellFormedPool(p) ==
    /\ p.k = "obj"
    /\ HasKey(p, "rolls") => WellFormedNumber(GetKey(p, "rolls"))
    /\ HasKey(p, "bonus_rolls") => WellFormedNumber(GetKey(p, "bonus_rolls"))
    /\ \A i \in 1..Len(Members(p, "conditions")) : WellFormedCondition(Members(p, "conditions")[i])

HasPools(t) == HasKey(t, "pools") /\ GetKey(t, "pools").k = "list"

Ended == pc \in {"done", "raised"}

\* the block of every pool of l from the i-th on
RECURSIVE Blocks(_, _)
Blocks(l, i) ==
    IF i > Len(l) THEN <<>>
    ELSE Upto(PoolLines(l[i]), 1) \o <<AddPoolLine>> \o Blocks(l, i + 1)

\* C8: under MODIFY the run on a table with pools p1..pk ends having
\* printed the opening guard, then for i = 1..k the lines of pool pi
\* followed by tableBuilder.pool(lootPool);, then the closing brace: every
\* pool once, in document order, none skipped, no two interleaved.
C8_MergeAssemblesEveryPoolInOrder ==
    (/\ event = MODIFY
     /\ Ended
     /\ HasPools(table)
     /\ \A i \in 1..Len(PoolList.l) : WellFormedPool(PoolList.l[i])) =>
        /\ pc = "done"
        /\ \A i \in 1..Len(PoolList.l) : Compiles(PoolList.l[i])
        /\ out = <<OpeningLine>> \o Blocks(PoolList.l, 1) \o <<ClosingLine>>

\* C9: under REPLACE the run ends having printed the opening guard, the
\* lines of pools[0], return mergePools(original, lootPool.build()); and the
\* closing brace: one pool block, no tableBuilder.pool(lootPool);, and
\* nothing that depends on pools[1..].
C9_ReplaceAssemblesFirstPoolOnly ==
    (/\ event = REPLACE
     /\ Ended
     /\ HasPools(table)
     /\ Len(PoolList.l) > 0
     /\ WellFormedPool(PoolList.l[1])) =>
        /\ pc = "done"
        /\ Compiles(PoolList.l[1])
        /\ out = <<OpeningLine>> \o Upto(PoolLines(PoolList.l[1]), 1) \o <<ReturnPoolLine, ClosingLine>>

\* the position in out of the header of the last pool begun, 0 before the first
LastHeader ==
    LET at == {i \in 1..Len(out) : out[i] = HeaderLine}
    IN  IF at = {} THEN 0 ELSE CHOOSE i \in at : \A j \in at : j <= i

\* what has been printed for the last pool begun
Block == SubSeq(out, LastHeader, Len(out) - (IF pc = "done" THEN 1 ELSE 0))

\* build_pool has returned, and has not begun printing the next pool
Built == pc \in {"for_pools", "header", "close", "done"}

\* the last pool begun
LastPool == IF event = MODIFY /\ Built THEN PoolList.l[pool_i - 1] ELSE PoolList.l[pool_i]

IsPrefix(a, b) == Len(a) <= Len(b) /\ a = SubSeq(b, 1, Len(a))

\* C10: what is printed for a pool is PoolLines of that pool, which the mode
\* is no argument of, followed by the statement of the mode: under MODIFY and
\* under REPLACE alike the lines of a pool are the same at every step of its
\* assembly (also when the assembly fails part way), and the two outputs
\* differ in the last statement only, tableBuilder.pool(lootPool); against
\* return mergePools(original, lootPool.build());.
C10_SameBuilderLinesInBothModes ==
    LastHeader > 0 =>
        LET lines == PoolLines(LastPool)
            final == IF event = MODIFY THEN AddPoolLine ELSE ReturnPoolLine
        IN  CASE Built -> Compiles(LastPool) /\ Block = Upto(lines, 1) \o <<final>>
              [] pc = "end" -> Compiles(LastPool) /\ Block = Upto(lines, 1)
              [] pc = "raised" -> ~Compiles(LastPool) /\ Block = Upto(lines, 1)
              [] OTHER -> IsPrefix(Block, Upto(lines, 1))

\* C10: under REPLACE a pool with rolls, bonus rolls, two conditions and a
\* function has been assembled: its eight builder lines, then the return
\* statement
C10_Witness ==
    /\ event = REPLACE
    /\ pc = "close"
    /\ LastPool = JObj(<<Kv("rolls", UniformSugar(JInt(1), JInt(3))),
                         Kv("bonus_rolls", JFloat(0, 5)),
                         Kv("conditions", JList(<<Kbp, Inverted(Kbp)>>)),
                         Kv("functions",
                            JList(<<Typed("minecraft:set_count", <<Kv("count", JInt(2))>>)>>))>>)
    /\ Len(Block) = 8
    /\ Block[1] = HeaderLine
    /\ Block[7] = <<"\t", "\t", ".apply", "(", ")">>
    /\ Block[8] = ReturnPoolLine

\* --- the claims above that fail, away from the inputs that make them fail

\* x holds, at any depth, an explicit constant {type: "minecraft:constant"}
RECURSIVE HasExplicitConstant(_)
HasExplicitConstant(x) ==
    \/ x.k = "obj" /\ KeyIs(x, "type", "minecraft:constant")
    \/ x.k = "obj" /\ \E i \in 1..Len(x.o) : HasExplicitConstant(x.o[i].val)
    \/ x.k = "list" /\ \E i \in 1..Len(x.l) : HasExplicitConstant(x.l[i])

\* c holds, at any depth, a time_check
RECURSIVE HasTimeCheck(_)
HasTimeCheck(c) ==
    \/ c.k = "obj" /\ KeyIs(c, "condition", "minecraft:time_check")
    \/ c.k = "obj" /\ \E i \in 1..Len(c.o) : HasTimeCheck(c.o[i].val)
    \/ c.k = "list" /\ \E i \in 1..Len(c.l) : HasTimeCheck(c.l[i])

\* the statement of C4 holds of every range that holds no explicit constant
C4_AwayFromExplicitConstants ==
    ~HasExplicitConstant(call.arg) => C4_LiteralPairIffPlainIntegers

\* the statement of C6 holds of every combinator that holds no time_check
C6_AwayFromTimeChecks ==
    ~HasTimeCheck(call.arg) => C6_OneSubExpressionPerTerm

\* the statement of C8 holds of every table that holds no explicit constant
C8_AwayFromExplicitConstants ==
    ~HasExplicitConstant(table) => C8_MergeAssemblesEveryPoolInOrder

\* the statement of C9 holds of every table whose first pool holds no
\* explicit constant
C9_AwayFromExplicitConstants ==
    (HasPools(table) /\ Len(PoolList.l) > 0 /\ ~HasExplicitConstant(PoolList.l[1])) =>
        C9_ReplaceAssemblesFirstPoolOnly

\* --- identifiers and tags

\* the id of a predicate holding one scalar id and nothing else: the items of
\* an item predicate, the type of an entity predicate, the blocks of a block
\* and the fluids of a fluid sub-predicate; JNull for any other call
SingleId(fn, arg) ==
    IF fn \notin {"item_predicate", "entity_predicate", "location_predicate"} THEN JNull
    ELSE IF arg.k # "obj" \/ Len(arg.o) # 1 THEN JNull
    ELSE LET key == arg.o[1].key
             val == arg.o[1].val
             Within(name) == val.k = "obj" /\ Len(val.o) = 1 /\ val.o[1].key = name /\ IsStr(val.o[1].val)
         IN  CASE fn = "item_predicate" /\ key = "items" /\ IsStr(val) -> val
               [] fn = "entity_predicate" /\ key = "type" /\ IsStr(val) -> val
               [] fn = "location_predicate" /\ key = "block" /\ Within("blocks") -> val.o[1].val
               [] fn = "location_predicate" /\ key = "fluid" /\ Within("fluids") -> val.o[1].val
               [] OTHER -> JNull

DirectIdNames ==
    {"Registries.ITEM.get", "Registries.ENTITY_TYPE.get", "Registries.BLOCK.get", "Registries.FLUID.get"}

UsesTag(t) == \E i \in 1..Len(t) : t[i] = "TagKey.of"
UsesDirectId(t) == \E i \in 1..Len(t) : t[i] \in DirectIdNames

\* what t holds between its first two double quotes
Quoted(t) ==
    LET q == {i \in 1..Len(t) : t[i] = "\""}
        a == CHOOSE i \in q : \A j \in q : i <= j
        b == CHOOSE i \in q \ {a} : \A j \in q \ {a} : i <= j
    IN  IF Cardinality(q) < 2 THEN <<"<none>">> ELSE SubSeq(t, a + 1, b - 1)

BeginsWithHash(id) == Len(id.s) > 0 /\ id.s[1] = "#"

\* C11: in the item, entity type, block and fluid translators an id selects
\* the tag constructor exactly when it begins with '#', the direct-id
\* constructor otherwise; the identifier emitted for a tag is the id without
\* its first character, the one emitted for a direct id is the id itself.
C11_TagIffLeadingHash ==
    (pc = "returned" /\ SingleId(call.fn, call.arg) # JNull) =>
        LET id == SingleId(call.fn, call.arg)
        IN  /\ IsText(ret)
            /\ UsesTag(ret.t) <=> BeginsWithHash(id)
            /\ UsesDirectId(ret.t) <=> ~BeginsWithHash(id)
            /\ Quoted(ret.t) = IF BeginsWithHash(id) THEN Tail(id.s) ELSE id.s

\* '#' occurs in id at its first position or not at all
HashOnlyLeads(id) == \A i \in 2..Len(id.s) : id.s[i] # "#"

\* the statement of C11 holds of every id that has no '#' after its first
\* character
C11_AwayFromInnerHash ==
    (SingleId(call.fn, call.arg) # JNull => HashOnlyLeads(SingleId(call.fn, call.arg))) =>
        C11_TagIffLeadingHash

\* --- collections of ids

\* t without its line breaks and tabs
Flat1(t) == SelectSeq(t, LAMBDA c : c \notin {"\n", "\t"})

\* the ids of a collection given as one scalar id or as a list of ids
IdsOf(v) == IF IsStr(v) THEN <<v.s>> ELSE [i \in 1..Len(v.l) |-> v.l[i].s]

\* a scalar id without '#', or a non-empty list of such ids
IsIdCollection(v) ==
    \/ IsStr(v) /\ ~HasHash(v.s)
    \/ /\ v.k = "list"
       /\ Len(v.l) > 0
       /\ \A i \in 1..Len(v.l) : IsStr(v.l[i]) /\ ~HasHash(v.l[i].s)

\* a location predicate holding biomes, structures or both and nothing else,
\* or an item predicate holding items and nothing else
HoldsIdCollections(fn, arg) ==
    /\ fn \in {"location_predicate", "item_predicate"}
    /\ arg.k = "obj"
    /\ Len(arg.o) > 0
    /\ \A i \in 1..Len(arg.o) :
           /\ IsIdCollection(arg.o[i].val)
           /\ arg.o[i].key \in (IF fn = "item_predicate" THEN {"items"} ELSE {"biomes", "structures"})
    /\ \A i, j \in 1..Len(arg.o) : i # j => arg.o[i].key # arg.o[j].key

\* id in the wrapper of a registry entry
RegistryEntryOf(registry, id) ==
    <<"registries.getWrapperOrThrow", "(", registry, ")", ".getOrThrow", "(",
      "RegistryKey.of", "(", registry, ", ", "Identifier.of", "(", "\"">>
    \o id \o <<"\"", ")", ")", ")">>

\* id in the wrapper of an item
ItemOf(id) == <<"Registries.ITEM.get", "(", "Identifier.of", "(", "\"">> \o id \o <<"\"", ")", ")">>

\* id in the wrapper of the collection named key
Wrapped(key, id) ==
    CASE key = "items" -> ItemOf(id)
      [] key = "biomes" -> RegistryEntryOf("RegistryKeys.BIOME", id)
      [] key = "structures" -> RegistryEntryOf("RegistryKeys.STRUCTURE", id)

\* the elements of ids[i..], each in its wrapper, joined by ", "
RECURSIVE CommaJoined(_, _, _)
CommaJoined(ids, i, key) ==
    IF i > Len(ids) THEN <<>>
    ELSE Wrapped(key, ids[i]) \o (IF i < Len(ids) THEN <<", ">> ELSE <<>>) \o CommaJoined(ids, i + 1, key)

\* what the claim requires of the predicate arg, layout left aside
CollectionsText(fn, arg) ==
    IF fn = "item_predicate"
    THEN <<"ItemPredicate.Builder.create", "(", ")", ".items", "(">>
         \o CommaJoined(IdsOf(GetKey(arg, "items")), 1, "items") \o <<")">>
    ELSE <<"LocationPredicate.Builder.create", "(", ")">>
         \o (IF HasKey(arg, "biomes")
             THEN <<".biome", "(", "RegistryEntryList.of", "(">>
                  \o CommaJoined(IdsOf(GetKey(arg, "biomes")), 1, "biomes") \o <<")", ")">>
             ELSE <<>>)
         \o (IF HasKey(arg, "structures")
             THEN <<".structure", "(", "RegistryEntryList.of", "(">>
                  \o CommaJoined(IdsOf(GetKey(arg, "structures")), 1, "structures") \o <<")", ")">>
             ELSE <<>>)

\* arg with every scalar collection replaced by the list of that one id
AsLists(arg) ==
    JObj([i \in 1..Len(arg.o) |->
            Kv(arg.o[i].key, IF IsStr(arg.o[i].val) THEN JList(<<arg.o[i].val>>) ELSE arg.o[i].val)])

\* the translator of name fn, at the tabs of the call
Translate(fn, arg) ==
    CASE fn = "item_predicate" -> item_predicate(arg, PredicateTabs)
      [] fn = "location_predicate" -> location_predicate(arg, PredicateTabs)
      [] fn = "entity_predicate" -> entity_predicate(arg, PredicateTabs)
      [] fn = "damage_source_predicate" -> damage_source_predicate(arg, PredicateTabs)

\* C12: a biomes, structures or items collection, given as one id or as a
\* list of ids, is translated to one call holding one wrapped element per id,
\* in the order of the input and joined by ", ", each the wrapper of the
\* collection's registry around the collection's own id; a scalar gives what
\* the list of that one id gives (layout aside).
C12_OneElementPerId ==
    (pc = "returned" /\ HoldsIdCollections(call.fn, call.arg)) =>
        /\ IsText(ret)
        /\ Flat1(ret.t) = CollectionsText(call.fn, call.arg)
        /\ IsText(Translate(call.fn, AsLists(call.arg)))
        /\ Flat1(ret.t) = Flat1(Translate(call.fn, AsLists(call.arg)).t)

\* the statement of C12 holds of every predicate whose structures are a list
C12_AwayFromScalarStructures ==
    ~IsStr(GetKey(call.arg, "structures")) => C12_OneElementPerId

\* --- key order

\* the field names of the predicate schemas, in one arbitrary fixed order
FieldNames ==
    <<"absolute", "amplifier", "biomes", "block", "blocks", "can_see_sky", "count",
      "dimension", "direct_entity", "distance", "duration", "effects", "equipment",
      "expected", "flags", "fluid", "fluids", "head", "id", "is_baby", "is_direct",
      "is_on_fire", "items", "light", "location", "mainhand", "max", "min", "movement",
      "passenger", "periodic_tick", "position", "smokey", "source_entity", "speed",
      "stepping_on", "structures", "tags", "targeted_entity", "team", "type", "vehicle",
      "visible", "x", "y", "z">>

\* the members m sorted by field name, from the r-th name on
RECURSIVE ByField(_, _)
ByField(m, r) ==
    IF r > Len(FieldNames) THEN <<>>
    ELSE SelectSeq(m, LAMBDA e : e.key = FieldNames[r]) \o ByField(m, r + 1)

\* x with the members of every object of fields, at every depth, in the
\* order of FieldNames: two values that differ only by permutations of their
\* field keys have the same Canon. An object keyed by ids (the effects
\* mapping) keeps its entries in place.
RECURSIVE Canon(_)
Canon(x) ==
    IF x.k = "list" THEN JList([i \in 1..Len(x.l) |-> Canon(x.l[i])])
    ELSE IF x.k # "obj" THEN x
    ELSE LET m == [i \in 1..Len(x.o) |-> Kv(x.o[i].key, Canon(x.o[i].val))]
         IN  IF \A i \in 1..Len(m) : \E r \in 1..Len(FieldNames) : m[i].key = FieldNames[r]
             THEN JObj(ByField(m, 1))
             ELSE JObj(m)

PredicateTranslators ==
    {"location_predicate", "entity_predicate", "item_predicate", "damage_source_predicate"}

RaisedOnAbsentField == pc = "raised" /\ exc = "KeyError" /\ HasKey(table, "pools")

\* C14: when the compilation fails because a required field of a matched
\* discriminator is absent, no line has been emitted for the document:
\* neither the guard, nor the lines of earlier pools, nor the header of the
\* failing pool.
C14_NoPartialEmission == RaisedOnAbsentField => out = <<>>

\* --- tags outside the variant sets

NumberTypes ==
    {"minecraft:constant", "minecraft:uniform", "minecraft:binomial", "minecraft:score",
     "minecraft:enchantment_level"}
LevelTypes ==
    {"minecraft:constant", "minecraft:clamped", "minecraft:fraction", "minecraft:levels_squared",
     "minecraft:linear", "minecraft:lookup"}
ConditionNames ==
    {"minecraft:weather_check", "minecraft:value_check", "minecraft:time_check",
     "minecraft:table_bonus", "minecraft:survives_explosion", "minecraft:reference",
     "minecraft:random_chance_with_enchanted_bonus", "minecraft:random_chance",
     "minecraft:match_tool", "minecraft:location_check", "minecraft:killed_by_player",
     "minecraft:inverted", "minecraft:entity_properties", "minecraft:enchantment_active_check",
     "minecraft:damage_source_properties", "minecraft:any_of", "minecraft:all_of"}

\* the tag that x carries under key, "" when it carries none
Tag(x, key) ==
    IF IsStr(GetKey(x, key)) /\ Len(GetKey(x, key).s) = 1 THEN GetKey(x, key).s[1] ELSE ""

\* the enchantment level value v, or an operand of it, has a type outside LevelTypes
RECURSIVE UnknownInLevel(_)
UnknownInLevel(v) ==
    /\ v.k = "obj"
    /\ HasKey(v, "type")
    /\ \/ Tag(v, "type") \notin LevelTypes
       \/ Tag(v, "type") = "minecraft:clamped" /\ UnknownInLevel(GetKey(v, "value"))
       \/ /\ Tag(v, "type") = "minecraft:fraction"
          /\ UnknownInLevel(GetKey(v, "numerator")) \/ UnknownInLevel(GetKey(v, "denominator"))
       \/ Tag(v, "type") = "minecraft:lookup" /\ UnknownInLevel(GetKey(v, "fallback"))

\* the number provider n, or an operand of it, has a type outside NumberTypes
RECURSIVE UnknownInNumber(_)
UnknownInNumber(n) ==
    /\ n.k = "obj"
    /\ IF HasKey(n, "type")
       THEN \/ Tag(n, "type") \notin NumberTypes
            \/ /\ Tag(n, "type") = "minecraft:uniform"
               /\ UnknownInNumber(GetKey(n, "min")) \/ UnknownInNumber(GetKey(n, "max"))
            \/ /\ Tag(n, "type") = "minecraft:binomial"
               /\ UnknownInNumber(GetKey(n, "n")) \/ UnknownInNumber(GetKey(n, "p"))
            \/ Tag(n, "type") = "minecraft:enchantment_level" /\ UnknownInLevel(GetKey(n, "amount"))
       ELSE /\ HasKey(n, "min") /\ HasKey(n, "max")
            /\ UnknownInNumber(GetKey(n, "min")) \/ UnknownInNumber(GetKey(n, "max"))

\* a bound of the range r is such a number provider
UnknownInRange(r) ==
    r.k = "obj" /\ (UnknownInNumber(GetKey(r, "min")) \/ UnknownInNumber(GetKey(r, "max")))

\* the condition c has a name outside ConditionNames, or holds a term,
\* a provider or a level value with an unknown tag
RECURSIVE UnknownInCondition(_)
UnknownInCondition(c) ==
    /\ c.k = "obj"
    /\ HasKey(c, "condition")
    /\ \/ Tag(c, "condition") \notin ConditionNames
       \/ /\ Tag(c, "condition") = "minecraft:random_chance_with_enchanted_bonus"
          /\ UnknownInLevel(GetKey(c, "enchanted_chance"))
       \/ /\ Tag(c, "condition") = "minecraft:value_check"
          /\ UnknownInNumber(GetKey(c, "value")) \/ UnknownInRange(GetKey(c, "range"))
       \/ Tag(c, "condition") = "minecraft:time_check" /\ UnknownInRange(GetKey(c, "value"))
       \/ Tag(c, "condition") = "minecraft:inverted" /\ UnknownInCondition(GetKey(c, "term"))
       \/ /\ Tag(c, "condition") \in {"minecraft:any_of", "minecraft:all_of"}
          /\ \E i \in 1..Len(Members(c, "terms")) : UnknownInCondition(Members(c, "terms")[i])

UnknownInPool(p) ==
    \/ UnknownInNumber(GetKey(p, "rolls"))
    \/ UnknownInNumber(GetKey(p, "bonus_rolls"))
    \/ \E i \in 1..Len(Members(p, "conditions")) : UnknownInCondition(Members(p, "conditions")[i])

\* the pools the run assembles: all of them under MODIFY, the first under REPLACE
Assembled ==
    IF ~HasPools(table) THEN {}
    ELSE IF event = MODIFY THEN 1..Len(PoolList.l)
    ELSE {i \in 1..Len(PoolList.l) : i = 1}

\* C15: a type or condition tag outside the variant sets always ends the run
\* in an error: in pool rolls, in an operand of a provider, in the
\* enchanted_chance of a chance with enchanted bonus, in a pool condition or
\* in a term of a combinator, the run never completes having printed the
\* line of the construct that holds it.
C15_UnknownTagEndsInError ==
    pc = "done" => \A i \in Assembled : ~UnknownInPool(PoolList.l[i])

\* an enchanted chance with an unknown type is somewhere in the condition c
RECURSIVE HoldsUnknownEnchantedChance(_)
HoldsUnknownEnchantedChance(c) ==
    /\ c.k = "obj"
    /\ \/ /\ Tag(c, "condition") = "minecraft:random_chance_with_enchanted_bonus"
          /\ UnknownInLevel(GetKey(c, "enchanted_chance"))
       \/ HoldsUnknownEnchantedChance(GetKey(c, "term"))
       \/ \E i \in 1..Len(Members(c, "terms")) : HoldsUnknownEnchantedChance(Members(c, "terms")[i])

\* the statement of C15 holds of every run whose pools hold no such chance
C15_AwayFromEnchantedChance ==
    (\A i \in Assembled : \A j \in 1..Len(Members(PoolList.l[i], "conditions")) :
        ~HoldsUnknownEnchantedChance(Members(PoolList.l[i], "conditions")[j]))
    => C15_UnknownTagEndsInError

\* a translator called on a node with an unknown tag returns no text, the
\* enchanted chance apart
C15_CallsAwayFromEnchantedChance ==
    (/\ pc = "returned"
     /\ \/ call.fn = "loot_number" /\ UnknownInNumber(call.arg)
        \/ call.fn = "enchantment_level_value" /\ UnknownInLevel(call.arg)
        \/ call.fn = "bounded_int_unary_operator" /\ UnknownInRange(call.arg)
        \/ /\ call.fn = "loot_condition"
           /\ UnknownInCondition(call.arg)
           /\ ~HoldsUnknownEnchantedChance(call.arg)) =>
        ~IsText(ret)

\* --- constructs that are not translated

\* the line of a function application with no argument
EmptyApplyLine == <<"\t", "\t", ".apply", "(", ")">>

\* C16: a construct that is not translated surfaces as an explicit result
\* and never as an empty expression: no run on a pool with a non-empty
\* functions list prints a function application with no argument.
C16_NoEmptyApply == \A i \in 1..Len(out) : out[i] # EmptyApplyLine

\* C16, for the number providers: loot_number called on a storage-backed provider
\* does not return without an expression.
C16_StorageIsNoAbsentExpression ==
    (pc = "returned" /\ call.fn = "loot_number" /\ Tag(call.arg, "type") = "minecraft:storage") =>
        ret.tag # "None"

\* --- the order of the lines of a pool

\* what a printed line is
Kind(line) ==
    IF line = <<>> THEN "blank"
    ELSE IF line = HeaderLine THEN "header"
    ELSE IF line \in {AddPoolLine, ReturnPoolLine} THEN "final"
    ELSE IF Len(line) < 3 THEN "other"
    ELSE CASE line[3] = ".rolls" -> "rolls"
           [] line[3] = ".bonusRolls" -> "bonus_rolls"
           [] line[3] = ".conditionally" -> "conditionally"
           [] line[3] = ".apply" -> "apply"
           [] OTHER -> "other"

\* the lines of the last pool begun, the empty lines left out
BlockLines == SelectSeq(Block, LAMBDA line : line # <<>>)

\* the kinds of lines that the claim lists for pool p, in its order
KindsOf(p) ==
    <<"header">>
    \o (IF HasKey(p, "rolls") THEN <<"rolls">> ELSE <<>>)
    \o (IF HasKey(p, "bonus_rolls") THEN <<"bonus_rolls">> ELSE <<>>)
    \o [i \in 1..Len(Members(p, "conditions")) |-> "conditionally"]
    \o [i \in 1..Len(Members(p, "functions")) |-> "apply"]

\* the positions in BlockLines of the .conditionally lines, as a sequence
ConditionallyAt == SelectSeq([i \in 1..Len(BlockLines) |-> i],
                             LAMBDA i : Kind(BlockLines[i]) = "conditionally")

\* C17: the lines of one pool's block come in a fixed order: the header, the
\* rolls line if the pool has rolls, the bonus rolls line if it has bonus
\* rolls, one .conditionally line per condition in the order of the input,
\* one .apply line per function, and the statement of the mode last,
\* whatever the order of the keys of the pool. At every step of an assembly
\* what is printed so far is the beginning of that sequence, and the whole
\* of it once the pool is built.
C17_LinesOfAPoolInFixedOrder ==
    LastHeader > 0 =>
        LET kinds == [i \in 1..Len(BlockLines) |-> Kind(BlockLines[i])]
            conditions == Members(LastPool, "conditions")
        IN  /\ IF Built
               THEN /\ kinds = KindsOf(LastPool) \o <<"final">>
                    /\ BlockLines[Len(BlockLines)] = (IF event = MODIFY THEN AddPoolLine ELSE ReturnPoolLine)
               ELSE IsPrefix(kinds, KindsOf(LastPool))
            /\ \A j \in 1..Len(ConditionallyAt) :
                   /\ j <= Len(conditions)
                   /\ BuilderLine(".conditionally", loot_condition(conditions[j], PoolTabs))
                        = Str(BlockLines[ConditionallyAt[j]])

\* a pool whose conditions come before its rolls in the document, and a
\* pool with rolls, bonus rolls, two conditions and a function, have been built
C17_Witness ==
    /\ event = MODIFY
    /\ pc = "done"
    /\ Len(PoolList.l) = 2
    /\ PoolList.l[1] = JObj(<<Kv("conditions", JList(<<Kbp>>)), Kv("rolls", JInt(2))>>)
    /\ Len(Members(LastPool, "conditions")) = 2
    /\ Len(Members(LastPool, "functions")) = 1
    /\ HasKey(LastPool, "bonus_rolls") /\ HasKey(LastPool, "rolls")
    /\ Len(out) = 14

\* --- killed_by_player and inverted

IsKilledByPlayer(c) == c.k = "obj" /\ Tag(c, "condition") = "minecraft:killed_by_player"

InvertCall == <<".invert", "(", ")">>
KilledByPlayerBuilder == <<"KilledByPlayerLootCondition.builder", "(", ")">>

EndsWithInvert(t) == Len(t) >= 3 /\ SubSeq(t, Len(t) - 2, Len(t)) = InvertCall

\* C18: a killed_by_player condition is the plain builder, followed by
\* .invert() if and only if its inverse field is present and true; an
\* inverted condition is the Inverted builder around exactly what its term
\* compiles to, so inverted of a plain killed_by_player holds no .invert().
C18_InvertIffInverseAndWrapperForInverted ==
    (pc = "returned" /\ call.fn = "loot_condition") =>
        /\ IsKilledByPlayer(call.arg) =>
               /\ IsText(ret)
               /\ EndsWithInvert(ret.t) <=> GetKey(call.arg, "inverse") = JBool(TRUE)
               /\ ret.t = KilledByPlayerBuilder \o (IF EndsWithInvert(ret.t) THEN InvertCall ELSE <<>>)
        /\ IsInverted(call.arg) =>
               LET term == loot_condition(GetKey(call.arg, "term"), PoolTabs + 1)
               IN  /\ IsText(term) <=> IsText(ret)
                   /\ IsText(term) =>
                          ret.t = <<"InvertedLootCondition.builder", "(", "\n">> \o tabs(PoolTabs + 1)
                                  \o term.t \o <<")">>
                   /\ GetKey(call.arg, "term") = Kbp =>
                          /\ IsText(ret)
                          /\ \A i \in 1..Len(ret.t) : ret.t[i] # ".invert"

\* killed_by_player with inverse false has been compiled
C18_Witness ==
    /\ pc = "returned"
    /\ call.fn = "loot_condition"
    /\ IsKilledByPlayer(call.arg)
    /\ GetKey(call.arg, "inverse") = JBool(FALSE)
    /\ ret = Str(KilledByPlayerBuilder)

\* --- parentheses

\* t[i..] closes exactly the d parentheses that are open before it, and
\* never one more than are open
RECURSIVE ClosesAll(_, _, _)
ClosesAll(t, i, d) ==
    IF d < 0 THEN FALSE
    ELSE IF i > Len(t) THEN d = 0
    ELSE ClosesAll(t, i + 1, d + (IF t[i] = "(" THEN 1 ELSE IF t[i] = ")" THEN -1 ELSE 0))

Balanced(t) == ClosesAll(t, 1, 0)

\* there is an empty list somewhere in x
RECURSIVE HoldsEmptyList(_)
HoldsEmptyList(x) ==
    \/ x.k = "list" /\ (Len(x.l) = 0 \/ \E i \in 1..Len(x.l) : HoldsEmptyList(x.l[i]))
    \/ x.k = "obj" /\ \E i \in 1..Len(x.o) : HoldsEmptyList(x.o[i].val)

IsTableBonus(c) == c.k = "obj" /\ Tag(c, "condition") = "minecraft:table_bonus"

\* C19: every expression that a translator returns on a well-formed input
\* is balanced: as many closing as opening parentheses, never more closings
\* than openings before any position; and every argument is inside its
\* call: the chances of a table_bonus are arguments of the builder call,
\* after the enchantment. This for every combination of optional fields,
\* block and fluid predicates by tag or without id included.
C19_BalancedAndArgumentsInside ==
    (pc = "returned" /\ IsText(ret) /\ ~HoldsEmptyList(call.arg)) =>
        /\ Balanced(ret.t)
        /\ (call.fn = "loot_condition" /\ IsTableBonus(call.arg)) =>
               ArgCount(ret.t) = 1 + Len(Members(call.arg, "chances"))

\* somewhere in x there is a table_bonus, a block predicate without blocks,
\* or a fluid predicate without fluids or with a tag
RECURSIVE HoldsOpenCall(_)
HoldsOpenCall(x) ==
    \/ x.k = "list" /\ \E i \in 1..Len(x.l) : HoldsOpenCall(x.l[i])
    \/ /\ x.k = "obj"
       /\ \/ IsTableBonus(x)
          \/ \E i \in 1..Len(x.o) :
                \/ HoldsOpenCall(x.o[i].val)
                \/ x.o[i].key = "block" /\ ~HasKey(x.o[i].val, "blocks")
                \/ /\ x.o[i].key = "fluid"
                   /\ \/ ~HasKey(x.o[i].val, "fluids")
                      \/ HasHash(PyStr(GetKey(x.o[i].val, "fluids")))

\* the statement of C19 holds of every other input
C19_AwayFromOpenCalls == ~HoldsOpenCall(call.arg) => C19_BalancedAndArgumentsInside

\* --- trimming the last separator

\* sub is in t, as consecutive tokens
Holds(t, sub) == \E i \in 0..(Len(t) - Len(sub)) : SubSeq(t, i + 1, i + Len(sub)) = sub

IsListOf(x, key) == x.k = "obj" /\ GetKey(x, key).k = "list"

\* C20: where a translator joins a list with a separator and trims the last
\* separator (the terms of any_of and all_of, the values of a lookup, the
\* biome, structure and item ids), the trimming takes a separator only: for
\* a list of any length, the empty list included, the name of the enclosing
\* constructor or call and its opening parenthesis are intact in the result.
C20_TrimTakesOnlyASeparator ==
    (pc = "returned" /\ IsText(ret)) =>
        /\ (call.fn = "loot_condition" /\ IsListOf(call.arg, "terms")
              /\ Tag(call.arg, "condition") = "minecraft:any_of") =>
               IsPrefix(<<"AnyOfLootCondition.builder", "(">>, ret.t)
        /\ (call.fn = "loot_condition" /\ IsListOf(call.arg, "terms")
              /\ Tag(call.arg, "condition") = "minecraft:all_of") =>
               IsPrefix(<<"AllOfLootCondition.builder", "(">>, ret.t)
        /\ (call.fn = "enchantment_level_value" /\ IsListOf(call.arg, "values")
              /\ Tag(call.arg, "type") = "minecraft:lookup") =>
               IsPrefix(<<"new EnchantmentLevelBasedValue.Lookup", "(", "Arrays.asList", "(">>, ret.t)
        /\ (call.fn = "location_predicate" /\ IsListOf(call.arg, "biomes")) =>
               Holds(ret.t, <<".biome", "(", "RegistryEntryList.of", "(">>)
        /\ (call.fn = "location_predicate" /\ IsListOf(call.arg, "structures")) =>
               Holds(ret.t, <<".structure", "(", "RegistryEntryList.of", "(">>)
        /\ (call.fn = "item_predicate" /\ IsListOf(call.arg, "items")) =>
               Holds(ret.t, <<".items", "(">>)

\* the statement of C20 holds of every list that is not empty
C20_AwayFromEmptyLists == ~HoldsEmptyList(call.arg) => C20_TrimTakesOnlyASeparator

====
